---- MODULE Spec2Model ----
(***************************************************************************)
(* ctxpack: per-resource job scheduler and indexer pipeline                *)
(* (apps/honojs/src/lib/indexer.ts, routes/resources.ts), hybrid search    *)
(* fusion (lib/search.ts) and NDJSON streaming (routes/search.ts).         *)
(*                                                                         *)
(* A step of an async function is the continuation that runs after one     *)
(* awaited call returns together with the database statement it issues     *)
(* next; JavaScript state (activeResourceQueues, resourceRuntimeOverrides) *)
(* and database rows are disjoint, so the two commute with the steps of    *)
(* the other flows.                                                        *)
(***************************************************************************)
EXTENDS Integers, Sequences, FiniteSets, TLC

\* ------------------------------------------------------------------------
\* Bounds of the scheduler / indexer model
\* ------------------------------------------------------------------------
NumResources == 2
MaxJobs == 2
\* Failures injected in one behaviour: rejected database statements, failed
\* git commands, failed embedMany calls.
MaxFaults == 1

Resources == 1..NumResources
JobIds == 1..MaxJobs
\* At most one processResourceQueue invocation per resource is alive.
WorkerIds == 1..NumResources

\* indexer.ts:31
EMBEDDING_BATCH_SIZE == 100

\* Directory trees a resource root can hold (0 = the directory is missing).
\* A tree is the ordered list of the files the scan returns: the tracked
\* files of a repository, the files of the directories walkLocalFiles could
\* read.
Trees == << <<"a.txt", "big.ts">> >>
TreeIds == 1..Len(Trees)

\* Number of chunks the Chunker returns for a file (deterministic, pure).
ChunksInFile(f) == IF f = "big.ts" THEN 249 ELSE 1

VARIABLES
  clock,                    \* database now(), coarse
  jobs,                     \* index_jobs rows, by id
  handlers,                 \* position of the request handler that inserts job id
  activeResourceQueues,     \* indexer.ts:41
  resourceRuntimeOverrides, \* indexer.ts:42
  workers,                  \* processResourceQueue invocations
  faults,                   \* failures injected so far (rejected statements, failed calls)
  resources,                \* resources rows
  chunks,                   \* chunks rows, by resource
  disk,                     \* tree materialized under the repos root, by git resource
  indexed,                  \* chunks rows as the last completed index job left them
  entry,                    \* streaming entry point that built the response
  fullStream,               \* parts the ChatModel has yet to yield
  ending,                   \* how fullStream ends: it returns or it throws
  producer,                 \* position of the start() that iterates fullStream
  stepNumber,               \* routes/search.ts:110
  lastType,                 \* routes/search.ts:111
  heartbeat,                \* the setInterval timer of createHeartbeat is set
  pings,                    \* pings the timer has enqueued
  source,                   \* queue of the stream createAgentNdjsonStream returns
  sourceClosed,             \* its controller.close() has run
  pump,                     \* position of the start() of the checked stream
  response,                 \* events enqueued on the stream given to the Response
  responseState,            \* readable, closed by the producer, cancelled by the consumer
  updateChecks,             \* calls of scheduleGitUpdateChecks
  corpus,                   \* the files and chunk rows of the searched resource
  input,                    \* the SearchInput of hybridSearch
  searchPc,                 \* position of hybridSearch
  textSettled,              \* state of textPromise
  vectorSettled,            \* state of vectorPromise
  textResults,              \* value of textPromise
  vectorResults,            \* value of vectorPromise
  searchResults,            \* what hybridSearch returns
  elapsed,                  \* milliseconds since hybridSearch was called
  textWork,                 \* the run of runTextSearch (rg, file reads)
  vectorWork,               \* the run of runVectorSearch (embed, chunk query)
  cancelled,                \* the caller of hybridSearch has given the search up
  reader,                   \* a request that reads the files of resources
  createRequests,           \* POST /api/resources requests: input and position
  createdRows,              \* resources rows the create requests inserted
  fuse,                     \* one call of mergeHybridResults: arguments, result
  research,                 \* the research jobs: row and background runner
  materialized,             \* per git resource: its row, its directory under the repos root, its sync job
  normalized,               \* topK and alpha of one search input, before and after normalisation
  git,                      \* one git resource: remote, directory, row, a sync job and an update check
  latestEnsure,             \* overrides of the latest ensureResourceJobQueue call per resource (history)
  consumed,                 \* number of events the consumer has read from the response stream
  lookup                    \* research_jobs rows by owner and the last reply of the polling route

schedVars == <<clock, jobs, handlers, activeResourceQueues,
               resourceRuntimeOverrides, workers, faults, resources,
               chunks, disk, indexed>>

streamVars == <<entry, fullStream, ending, producer, stepNumber, lastType,
                heartbeat, pings, source, sourceClosed, pump, response,
                responseState, updateChecks>>

searchVars == <<corpus, input, searchPc, textSettled, vectorSettled,
                textResults, vectorResults, searchResults, elapsed,
                textWork, vectorWork, cancelled>>

readVars == <<reader>>

createVars == <<createRequests, createdRows>>

fuseVars == <<fuse>>

researchVars == <<research>>

materializerVars == <<materialized>>

normalizeVars == <<normalized>>

gitVars == <<git>>

ensureVars == <<latestEnsure>>

consumerVars == <<consumed>>

lookupVars == <<lookup>>

\* What the actions of one part of the program leave alone.
notSchedVars ==
  <<streamVars, searchVars, readVars, createVars, fuseVars, researchVars, materializerVars, normalizeVars, gitVars, ensureVars, consumerVars, lookupVars>>
notStreamVars ==
  <<schedVars, searchVars, readVars, createVars, fuseVars, researchVars, materializerVars, normalizeVars, gitVars, ensureVars, consumerVars, lookupVars>>
notSearchVars ==
  <<schedVars, streamVars, readVars, createVars, fuseVars, researchVars, materializerVars, normalizeVars, gitVars, ensureVars, consumerVars, lookupVars>>
notReadVars ==
  <<schedVars, streamVars, searchVars, createVars, fuseVars, researchVars, materializerVars, normalizeVars, gitVars, ensureVars, consumerVars, lookupVars>>
notCreateVars ==
  <<schedVars, streamVars, searchVars, readVars, fuseVars, researchVars, materializerVars, normalizeVars, gitVars, ensureVars, consumerVars, lookupVars>>
notFuseVars ==
  <<schedVars, streamVars, searchVars, readVars, createVars, researchVars, materializerVars, normalizeVars, gitVars, ensureVars, consumerVars, lookupVars>>
notResearchVars ==
  <<schedVars, streamVars, searchVars, readVars, createVars, fuseVars, materializerVars, normalizeVars, gitVars, ensureVars, consumerVars, lookupVars>>
notMaterializerVars ==
  <<schedVars, streamVars, searchVars, readVars, createVars, fuseVars, researchVars, normalizeVars, gitVars, ensureVars, consumerVars, lookupVars>>
notNormalizeVars ==
  <<schedVars, streamVars, searchVars, readVars, createVars, fuseVars, researchVars, materializerVars, gitVars, ensureVars, consumerVars, lookupVars>>
notGitVars ==
  <<schedVars, streamVars, searchVars, readVars, createVars, fuseVars, researchVars, materializerVars, normalizeVars, ensureVars, consumerVars, lookupVars>>
notEnsureVars ==
  <<schedVars, streamVars, searchVars, readVars, createVars, fuseVars, researchVars, materializerVars, normalizeVars, gitVars, consumerVars, lookupVars>>
notSchedEnsureVars ==
  <<streamVars, searchVars, readVars, createVars, fuseVars, researchVars, materializerVars, normalizeVars, gitVars, consumerVars, lookupVars>>
notConsumerVars ==
  <<schedVars, streamVars, searchVars, readVars, createVars, fuseVars, researchVars, materializerVars, normalizeVars, gitVars, ensureVars, lookupVars>>
notLookupVars ==
  <<schedVars, streamVars, searchVars, readVars, createVars, fuseVars, researchVars, materializerVars, normalizeVars, gitVars, ensureVars, consumerVars>>

\* ------------------------------------------------------------------------
\* Pure helpers of indexer.ts
\* ------------------------------------------------------------------------
normalizeJobType(t) == IF t = "sync" THEN "sync" ELSE "index"

normalizeContentStatus(s) ==
  IF s \in {"syncing", "ready", "failed"} THEN s ELSE "missing"

normalizeVectorStatus(s) ==
  IF s \in {"indexing", "ready", "failed"} THEN s ELSE "missing"

deriveLegacyStatus(contentStatus, vectorStatus) ==
  IF contentStatus = "failed" \/ vectorStatus = "failed" THEN "failed"
  ELSE IF contentStatus = "syncing" \/ vectorStatus = "indexing" THEN "indexing"
  ELSE IF contentStatus = "ready" /\ vectorStatus = "ready" THEN "ready"
  ELSE "pending"

Min(a, b) == IF a < b THEN a ELSE b
Max(a, b) == IF a > b THEN a ELSE b

\* ceil(n / EMBEDDING_BATCH_SIZE)
TotalBatches(n) == (n + EMBEDDING_BATCH_SIZE - 1) \div EMBEDDING_BATCH_SIZE

\* Files a scan of tree id t returns (no directory, no files).
FilesOfTree(t) == IF t = 0 THEN << >> ELSE Trees[t]

RECURSIVE ChunksOfFiles(_, _)
\* chunkBatch + flattenChunkResults: the chunks of the files, in file order.
\* A chunk row gets a fresh id when it is inserted; the rows of one job are
\* told from the rows of another by the job that wrote them.
ChunksOfFiles(files, j) ==
  IF files = << >> THEN << >>
  ELSE [k \in 1..ChunksInFile(Head(files)) |->
          [filepath |-> Head(files), n |-> k, job |-> j]]
       \o ChunksOfFiles(Tail(files), j)

flattenChunkResults(files, j) == ChunksOfFiles(files, j)

\* An IndexJobWarning: the stage that pushed it and its filepath.
Warning(stage, filepath) == [stage |-> stage, filepath |-> filepath]

SeqToSet(s) == {s[i] : i \in 1..Len(s)}

\* Mutation: a batch whose embedding failed is not stored.
BatchRowsEmbeddedOnly(all, batchIndex, embOk) ==
  LET start == batchIndex * EMBEDDING_BATCH_SIZE
  IN {[filepath |-> all[i].filepath, n |-> all[i].n, job |-> all[i].job,
       embedded |-> embOk] :
        i \in {k \in (start + 1)..Min(start + EMBEDDING_BATCH_SIZE, Len(all)) :
                 embOk}}

\* The rows one batch inserts: chunksToInsert.slice(start, start + BATCH).
BatchRows(all, batchIndex, embOk) ==
  LET start == batchIndex * EMBEDDING_BATCH_SIZE
  IN {[filepath |-> all[i].filepath, n |-> all[i].n, job |-> all[i].job,
       embedded |-> embOk] :
        i \in (start + 1)..Min(start + EMBEDDING_BATCH_SIZE, Len(all))}

\* A chunk row without its embedding.
Ident(rows) == {[filepath |-> c.filepath, n |-> c.n, job |-> c.job] : c \in rows}

\* ------------------------------------------------------------------------
\* Rows
\* ------------------------------------------------------------------------
NoJob == [resourceId |-> 0, jobType |-> "none", status |-> "none",
          progress |-> 0, error |-> "", completedAt |-> 0, createdAt |-> 0,
          warnings |-> << >>]

IdleWorker == [res |-> 0, pc |-> "idle", job |-> 0, jtype |-> "none",
               runtime |-> 0, rcs |-> "missing", rvs |-> "missing",
               tree |-> 0, batch |-> 0, cleared |-> FALSE, inserted |-> 0,
               embOk |-> FALSE, err |-> "", unread |-> {}, warnings |-> << >>,
               embedFailed |-> {}]

\* routes/resources.ts:189-205 (createResourceRoute)
NewResource(type) ==
  [type |-> type,
   contentStatus |-> IF type = "local" THEN "ready" ELSE "missing",
   vectorStatus |-> "missing", status |-> "pending",
   contentError |-> "", vectorError |-> "", chunkCount |-> 0,
   lastIndexedAt |-> 0]

\* A row is visible to other statements once its insert has committed.
Visible(j) == handlers[j] \in {"inserted", "done"}

\* The consumer has read nothing.
ConsumerQuiet == consumed = 0

\* ------------------------------------------------------------------------
\* Research jobs and their owners: POST and GET /api/search/research/jobs.
\* A row is named by its position in rowOwners; "none" is the null user.
\* ------------------------------------------------------------------------
MaxLookupJobs == 3
Users == {"u1", "u2"}

NoReply == [requester |-> "none", id |-> 0, status |-> 0, userId |-> "none"]

LookupInit ==
  \E remote \in BOOLEAN :
    lookup = [remoteMode |-> remote, rowOwners |-> << >>, reply |-> NoReply]

LookupQuiet ==
  lookup = [remoteMode |-> FALSE, rowOwners |-> << >>, reply |-> NoReply]

\* c.get("user") of a request: in local mode there is no user.
Requesters == IF lookup.remoteMode THEN Users \cup {"none"} ELSE {"none"}

Unauthorized(user) == lookup.remoteMode /\ user = "none"

\* POST /api/search/research/jobs: createResearchJob inserts the row with
\* userId = user?.id ?? null.
PostResearchJob(user) ==
  /\ user \in Requesters
  /\ Len(lookup.rowOwners) < MaxLookupJobs
  /\ lookup' = IF Unauthorized(user)
                 THEN [lookup EXCEPT !.reply = [NoReply EXCEPT !.requester = user,
                                                               !.status = 401]]
                 ELSE [lookup EXCEPT !.rowOwners = Append(@, user),
                                     !.reply = NoReply]
  /\ UNCHANGED notLookupVars

\* getResearchJob: select from research_jobs where id = jobId limit 1
\* ("none" when there is no row, else the userId of the row).
getResearchJob(rowOwners, jobId) ==
  IF jobId \in 1..Len(rowOwners) THEN [found |-> TRUE, userId |-> rowOwners[jobId]]
  ELSE [found |-> FALSE, userId |-> "none"]

\* GET /api/search/research/jobs/:id
PollResearchJob(user, jobId) ==
  /\ user \in Requesters
  /\ LET job == getResearchJob(lookup.rowOwners, jobId)
         status == IF Unauthorized(user) THEN 401
                   ELSE IF ~job.found THEN 404 ELSE 200
     IN lookup' = [lookup EXCEPT !.reply =
                     [requester |-> user, id |-> jobId, status |-> status,
                      userId |-> IF status = 200 THEN job.userId ELSE "none"]]
  /\ UNCHANGED notLookupVars

LookupNext ==
  \/ \E user \in Users \cup {"none"} : PostResearchJob(user)
  \/ \E user \in Users \cup {"none"}, jobId \in 1..MaxLookupJobs :
       PollResearchJob(user, jobId)

\* No call of ensureResourceJobQueue yet.
EnsureQuiet == latestEnsure = [r \in Resources |-> 0]

SchedInit ==
  /\ clock = 1
  /\ jobs = [j \in JobIds |-> NoJob]
  /\ handlers = [j \in JobIds |-> "idle"]
  /\ activeResourceQueues = {}
  /\ resourceRuntimeOverrides = [r \in Resources |-> 0]
  /\ workers = [w \in WorkerIds |-> IdleWorker]
  /\ faults = 0
  /\ resources \in [Resources -> {NewResource("git"), NewResource("local")}]
  /\ chunks = [r \in Resources |-> {}]
  /\ disk = [r \in Resources |-> 0]
  /\ indexed = [r \in Resources |-> {}]


\* ------------------------------------------------------------------------
\* Request handlers: POST /api/resources/{id}/sync and /index
\* ------------------------------------------------------------------------
\* The insert statement starts: the row gets id = gen_random_uuid() and
\* created_at = now(), the start time of its transaction. Two statements
\* never start in the same microsecond here, and ids are numbered in the
\* order of the createdAt values.
NextJobId ==
  {j \in JobIds : handlers[j] = "idle" /\ \A k \in 1..(j - 1) : handlers[k] # "idle"}

InsertBegin(r, t) ==
  \E id \in NextJobId :
    /\ jobs' = [jobs EXCEPT ![id] =
                  [resourceId |-> r, jobType |-> t, status |-> "queued",
                   progress |-> 0, error |-> "", completedAt |-> 0,
                   createdAt |-> clock, warnings |-> << >>]]
    /\ handlers' = [handlers EXCEPT ![id] = "inserting"]
    /\ clock' = clock + 1
    /\ UNCHANGED <<activeResourceQueues, resourceRuntimeOverrides, workers,
                   faults, resources, chunks, disk, indexed>>
  /\ UNCHANGED notSchedVars

\* The insert commits: the row becomes visible to other statements.
InsertCommit(id) ==
  /\ handlers[id] = "inserting"
  /\ handlers' = [handlers EXCEPT ![id] = "inserted"]
  /\ UNCHANGED <<clock, jobs, activeResourceQueues, resourceRuntimeOverrides,
                 workers, faults, resources, chunks, disk, indexed>>
  /\ UNCHANGED notSchedVars

\* One queue for all resources: no worker is free while one is busy.
FreeWorkersOfOneQueue ==
  IF \A w \in WorkerIds : workers[w].pc = "idle" THEN WorkerIds ELSE {}

FreeWorkers == {w \in WorkerIds : workers[w].pc = "idle"}

Spawned(r) == [IdleWorker EXCEPT !.res = r, !.pc = "select"]

\* Mutation: the overrides of a resource with an active worker are kept.
FirstOverrides(r, overrides) ==
  IF r \in activeResourceQueues THEN resourceRuntimeOverrides[r] ELSE overrides

\* resourceRuntimeOverrides.set(resourceId, {providerKeys, modelConfig})
SetOverrides(r, overrides) == overrides

ensureResourceJobQueue(r, overrides) ==
  /\ resourceRuntimeOverrides' =
       [resourceRuntimeOverrides EXCEPT ![r] = SetOverrides(r, overrides)]
  /\ IF r \in activeResourceQueues
       THEN UNCHANGED <<activeResourceQueues, workers>>
       ELSE /\ activeResourceQueues' = activeResourceQueues \cup {r}
            /\ FreeWorkers # {}
            /\ workers' = [workers EXCEPT
                             ![CHOOSE w \in FreeWorkers : \A v \in FreeWorkers : w <= v]
                               = Spawned(r)]

\* The handler resumes after the insert and calls ensureResourceJobQueue with
\* the overrides of its request (named by the job the request created).
HandlerEnsure(id) ==
  /\ handlers[id] = "inserted"
  /\ handlers' = [handlers EXCEPT ![id] = "done"]
  /\ ensureResourceJobQueue(jobs[id].resourceId, id)
  /\ latestEnsure' = [latestEnsure EXCEPT ![jobs[id].resourceId] = id]
  /\ UNCHANGED <<clock, jobs, faults, resources, chunks, disk, indexed>>
  /\ UNCHANGED notSchedEnsureVars

\* ------------------------------------------------------------------------
\* processResourceQueue
\* ------------------------------------------------------------------------
JobLess(a, b) ==
  \/ jobs[a].createdAt < jobs[b].createdAt
  \/ jobs[a].createdAt = jobs[b].createdAt /\ a < b

\* where resourceId = r and status = 'queued'
QueuedJobsOf(r) ==
  {j \in JobIds : Visible(j) /\ jobs[j].resourceId = r /\ jobs[j].status = "queued"}

\* Mutation: the status filter is lost, any row of the resource is selected.
SelectableJobsAnyStatus(r) ==
  {j \in JobIds : Visible(j) /\ jobs[j].resourceId = r
                   /\ jobs[j].status # "running"}

SelectableJobs(r) == QueuedJobsOf(r)

\* order by createdAt asc, id asc limit 1
FirstJob(q) == CHOOSE j \in q : \A k \in q \ {j} : JobLess(j, k)

SetWorker(w, rec) == workers' = [workers EXCEPT ![w] = rec]

\* The job function has returned: back to the top of the while loop.
NextIteration(wk) == [IdleWorker EXCEPT !.res = wk.res, !.pc = "select"]

SelectQueued(w) ==
  /\ workers[w].pc = "select"
  /\ LET q == SelectableJobs(workers[w].res)
         j == IF q = {} THEN 0 ELSE FirstJob(q)
     IN SetWorker(w, [workers[w] EXCEPT
                        !.pc = "selected", !.job = j,
                        !.jtype = IF j = 0 THEN "none"
                                  ELSE normalizeJobType(jobs[j].jobType)])
  /\ UNCHANGED <<clock, jobs, handlers, activeResourceQueues,
                 resourceRuntimeOverrides, faults, resources, chunks, disk,
                 indexed>>
  /\ UNCHANGED notSchedVars

\* .finally of ensureResourceJobQueue
ReleaseSlot(w) ==
  /\ activeResourceQueues' = activeResourceQueues \ {workers[w].res}
  /\ resourceRuntimeOverrides' =
       [resourceRuntimeOverrides EXCEPT ![workers[w].res] = 0]
  /\ SetWorker(w, IdleWorker)

\* No queued job: the worker returns and the slot is released.
Release(w) ==
  /\ workers[w].pc = "selected"
  /\ workers[w].job = 0
  /\ ReleaseSlot(w)
  /\ UNCHANGED <<clock, jobs, handlers, faults, resources, chunks, disk, indexed>>
  /\ UNCHANGED notSchedVars

MarkRunning(w) ==
  /\ workers[w].pc = "selected"
  /\ workers[w].job # 0
  /\ jobs' = [jobs EXCEPT ![workers[w].job] =
                [@ EXCEPT !.status = "running", !.progress = 0, !.error = "",
                          !.completedAt = 0]]
  /\ SetWorker(w, [workers[w] EXCEPT !.pc = "load"])
  /\ UNCHANGED <<clock, handlers, activeResourceQueues,
                 resourceRuntimeOverrides, faults, resources, chunks, disk,
                 indexed>>
  /\ UNCHANGED notSchedVars

\* runtime = resourceRuntimeOverrides.get(resourceId); then the job's first
\* statement, select from resources where id = resourceId.
LoadResource(w) ==
  /\ workers[w].pc = "load"
  /\ SetWorker(w, [workers[w] EXCEPT
                     !.pc = IF workers[w].jtype = "sync" THEN "sync_mark"
                            ELSE "index_mark",
                     !.runtime = resourceRuntimeOverrides[workers[w].res],
                     !.rcs = resources[workers[w].res].contentStatus,
                     !.rvs = resources[workers[w].res].vectorStatus,
                     !.tree = 0, !.batch = 0, !.cleared = FALSE,
                     !.inserted = 0, !.embOk = FALSE, !.err = "",
                     !.unread = {}, !.warnings = << >>, !.embedFailed = {}])
  /\ UNCHANGED <<clock, jobs, handlers, activeResourceQueues,
                 resourceRuntimeOverrides, faults, resources, chunks, disk,
                 indexed>>
  /\ UNCHANGED notSchedVars


\* The tree a scan of the resource root finds: the materialized repository
\* of a git resource, whatever the user left at the path of a local one.
ScannedTrees(r) ==
  IF resources[r].type = "git" THEN {disk[r]} ELSE 0..Len(Trees)

SetResource(r, rec) == resources' = [resources EXCEPT ![r] = rec]
SetJob(j, rec) == jobs' = [jobs EXCEPT ![j] = rec]

\* ------------------------------------------------------------------------
\* runSyncJob
\* ------------------------------------------------------------------------
SyncMark(w) ==
  /\ workers[w].pc = "sync_mark"
  /\ SetResource(workers[w].res,
       [resources[workers[w].res] EXCEPT
          !.contentStatus = "syncing", !.contentError = "", !.status = "indexing"])
  /\ SetWorker(w, [workers[w] EXCEPT !.pc = "sync_work"])
  /\ UNCHANGED <<clock, jobs, handlers, activeResourceQueues,
                 resourceRuntimeOverrides, faults, chunks, disk, indexed>>
  /\ UNCHANGED notSchedVars

\* git: prepareGitRepository checks out the tree of the remote head;
\* local: the path must exist, the tree is walked.
SyncWork(w) ==
  /\ workers[w].pc = "sync_work"
  /\ LET r == workers[w].res IN
       IF resources[r].type = "git"
         THEN \/ /\ \E t \in TreeIds : disk' = [disk EXCEPT ![r] = t]
                 /\ UNCHANGED faults
                 /\ SetWorker(w, [workers[w] EXCEPT !.pc = "sync_ready"])
              \/ /\ faults < MaxFaults
                 /\ faults' = faults + 1
                 /\ UNCHANGED disk
                 /\ SetWorker(w, [workers[w] EXCEPT
                                    !.pc = "fail_job", !.err = "git command failed"])
         ELSE /\ UNCHANGED <<disk, faults>>
              /\ \E t \in ScannedTrees(r) :
                   IF t = 0
                     THEN SetWorker(w, [workers[w] EXCEPT
                            !.pc = "fail_job",
                            !.err = "Local resource path does not exist"])
                     ELSE SetWorker(w, [workers[w] EXCEPT !.pc = "sync_ready"])
  /\ UNCHANGED <<clock, jobs, handlers, activeResourceQueues,
                 resourceRuntimeOverrides, resources, chunks, indexed>>
  /\ UNCHANGED notSchedVars

\* The sync also stamps lastIndexedAt.
SyncedAndStampedRow(row, vectorStatus) ==
  [row EXCEPT !.contentStatus = "ready", !.contentError = "",
              !.status = deriveLegacyStatus("ready",
                                            normalizeVectorStatus(vectorStatus)),
              !.lastIndexedAt = @ + 1]

\* update resources set contentStatus = 'ready', contentError = null, ...
SyncedRow(row, vectorStatus) ==
  [row EXCEPT !.contentStatus = "ready", !.contentError = "",
              !.status = deriveLegacyStatus("ready",
                                            normalizeVectorStatus(vectorStatus))]

SyncReady(w) ==
  /\ workers[w].pc = "sync_ready"
  /\ SetResource(workers[w].res,
                 SyncedRow(resources[workers[w].res], workers[w].rvs))
  /\ SetWorker(w, [workers[w] EXCEPT !.pc = "sync_complete"])
  /\ UNCHANGED <<clock, jobs, handlers, activeResourceQueues,
                 resourceRuntimeOverrides, faults, chunks, disk, indexed>>
  /\ UNCHANGED notSchedVars

CompletedRow(row, warnings) ==
  [row EXCEPT !.status = "completed", !.progress = 100, !.error = "",
              !.warnings = warnings, !.completedAt = clock]

SyncComplete(w) ==
  /\ workers[w].pc = "sync_complete"
  /\ SetJob(workers[w].job,
            CompletedRow(jobs[workers[w].job], workers[w].warnings))
  /\ SetWorker(w, NextIteration(workers[w]))
  /\ UNCHANGED <<clock, handlers, activeResourceQueues,
                 resourceRuntimeOverrides, faults, resources, chunks, disk,
                 indexed>>
  /\ UNCHANGED notSchedVars

\* ------------------------------------------------------------------------
\* runIndexJob
\* ------------------------------------------------------------------------
IndexMark(w) ==
  /\ workers[w].pc = "index_mark"
  /\ SetResource(workers[w].res,
       [resources[workers[w].res] EXCEPT
          !.vectorStatus = "indexing", !.vectorError = "", !.status = "indexing"])
  /\ SetWorker(w, [workers[w] EXCEPT !.pc = "index_collect"])
  /\ UNCHANGED <<clock, jobs, handlers, activeResourceQueues,
                 resourceRuntimeOverrides, faults, chunks, disk, indexed>>
  /\ UNCHANGED notSchedVars

\* The warning collectGitFileInputs / collectLocalFileInputs pushes when
\* the root of the resource does not exist.
MissingRootWarning(type) ==
  IF type = "git" THEN Warning("sync", "<repository>")
  ELSE Warning("scan", "<root>")

RECURSIVE ReadWarnings(_, _)
\* readIndexableFiles: one warning per file whose stat or readFile throws.
ReadWarnings(paths, unread) ==
  IF paths = << >> THEN << >>
  ELSE (IF Head(paths) \in unread THEN <<Warning("read", Head(paths))>>
        ELSE << >>) \o ReadWarnings(Tail(paths), unread)

\* collectFileInputs: a missing root yields a warning and no files, a file
\* that cannot be read yields a warning and is left out.
IndexCollect(w) ==
  /\ workers[w].pc = "index_collect"
  /\ \E t \in ScannedTrees(workers[w].res) :
       \E unread \in SUBSET SeqToSet(FilesOfTree(t)) :
         SetWorker(w, [workers[w] EXCEPT
           !.pc = "index_found", !.tree = t, !.unread = unread,
           !.warnings =
              IF t = 0
                THEN <<MissingRootWarning(resources[workers[w].res].type)>>
                ELSE ReadWarnings(FilesOfTree(t), unread)])
  /\ UNCHANGED <<clock, jobs, handlers, activeResourceQueues,
                 resourceRuntimeOverrides, faults, resources, chunks, disk,
                 indexed>>
  /\ UNCHANGED notSchedVars

\* files: what readIndexableFiles returns.
ReadFiles(w) ==
  SelectSeq(FilesOfTree(workers[w].tree), LAMBDA f : f \notin workers[w].unread)

TotalFiles(w) == Len(ReadFiles(w))
AllChunks(w) == flattenChunkResults(ReadFiles(w), workers[w].job)

\* update index_jobs set totalFiles, processedFiles = 0, progress
IndexFound(w) ==
  /\ workers[w].pc = "index_found"
  /\ SetJob(workers[w].job,
       [jobs[workers[w].job] EXCEPT
          !.progress = IF TotalFiles(w) = 0 THEN 95 ELSE 10])
  /\ SetWorker(w, [workers[w] EXCEPT !.pc = "index_chunked"])
  /\ UNCHANGED <<clock, handlers, activeResourceQueues,
                 resourceRuntimeOverrides, faults, resources, chunks, disk,
                 indexed>>
  /\ UNCHANGED notSchedVars

\* chunkBatch, flattenChunkResults, then update index_jobs set progress
IndexChunked(w) ==
  /\ workers[w].pc = "index_chunked"
  /\ SetJob(workers[w].job,
       [jobs[workers[w].job] EXCEPT
          !.progress = IF TotalFiles(w) = 0 THEN 95 ELSE 40])
  /\ SetWorker(w, [workers[w] EXCEPT
                     !.pc = IF Len(AllChunks(w)) > 0 THEN "embed"
                            ELSE "index_clear"])
  /\ UNCHANGED <<clock, handlers, activeResourceQueues,
                 resourceRuntimeOverrides, faults, resources, chunks, disk,
                 indexed>>
  /\ UNCHANGED notSchedVars

\* embedMany for the batch; a failure is caught and the batch is stored
\* without vectors.
EmbedBatch(w) ==
  /\ workers[w].pc = "embed"
  /\ \E ok \in IF faults < MaxFaults THEN BOOLEAN ELSE {TRUE} :
       /\ faults' = IF ok THEN faults ELSE faults + 1
       /\ SetWorker(w, [workers[w] EXCEPT
            !.embOk = ok,
            !.embedFailed = IF ok THEN @ ELSE @ \cup {workers[w].batch},
            !.warnings =
               IF ok THEN @
               ELSE Append(@, Warning("embed",
                      AllChunks(w)[workers[w].batch * EMBEDDING_BATCH_SIZE + 1].filepath)),
            !.pc = IF workers[w].cleared THEN "insert" ELSE "delete"])
  /\ UNCHANGED <<clock, jobs, handlers, activeResourceQueues,
                 resourceRuntimeOverrides, resources, chunks, disk, indexed>>
  /\ UNCHANGED notSchedVars

\* db.delete(chunks).where(resourceId = r), before the first insert
DeleteChunks(w) ==
  /\ workers[w].pc = "delete"
  /\ chunks' = [chunks EXCEPT ![workers[w].res] = {}]
  /\ SetWorker(w, [workers[w] EXCEPT !.pc = "insert", !.cleared = TRUE])
  /\ UNCHANGED <<clock, jobs, handlers, activeResourceQueues,
                 resourceRuntimeOverrides, faults, resources, disk, indexed>>
  /\ UNCHANGED notSchedVars

\* db.insert(chunks).values(rows)
InsertChunks(w) ==
  /\ workers[w].pc = "insert"
  /\ LET rows == BatchRows(AllChunks(w), workers[w].batch, workers[w].embOk)
     IN /\ chunks' = [chunks EXCEPT ![workers[w].res] = @ \cup rows]
        /\ SetWorker(w, [workers[w] EXCEPT
                           !.pc = "batch_progress",
                           !.inserted = @ + Cardinality(rows)])
  /\ UNCHANGED <<clock, jobs, handlers, activeResourceQueues,
                 resourceRuntimeOverrides, faults, resources, disk, indexed>>
  /\ UNCHANGED notSchedVars

\* 40 + floor((batchIndex + 1) / totalBatches * 55), capped at 95
\* The share of the batches still to embed.
RemainingProgressValue(batchIndex, totalBatches) ==
  Min(40 + ((totalBatches - batchIndex) * 55) \div totalBatches, 95)

BatchProgressValue(batchIndex, totalBatches) ==
  Min(40 + ((batchIndex + 1) * 55) \div totalBatches, 95)

BatchProgress(w) ==
  /\ workers[w].pc = "batch_progress"
  /\ LET total == TotalBatches(Len(AllChunks(w))) IN
       /\ SetJob(workers[w].job,
            [jobs[workers[w].job] EXCEPT
               !.progress = BatchProgressValue(workers[w].batch, total)])
       /\ SetWorker(w, [workers[w] EXCEPT
                          !.batch = @ + 1,
                          !.pc = IF workers[w].batch + 1 < total THEN "embed"
                                 ELSE "index_ready"])
  /\ UNCHANGED <<clock, handlers, activeResourceQueues,
                 resourceRuntimeOverrides, faults, resources, chunks, disk,
                 indexed>>
  /\ UNCHANGED notSchedVars

\* Mutation: nothing is deleted when the job has no chunk to insert.
ClearedChunksKept(rows) == rows

\* allChunks.length = 0: db.delete(chunks).where(resourceId = r)
ClearedChunks(rows) == {}

IndexClear(w) ==
  /\ workers[w].pc = "index_clear"
  /\ chunks' = [chunks EXCEPT ![workers[w].res] = ClearedChunks(@)]
  /\ SetWorker(w, [workers[w] EXCEPT !.pc = "index_ready"])
  /\ UNCHANGED <<clock, jobs, handlers, activeResourceQueues,
                 resourceRuntimeOverrides, faults, resources, disk, indexed>>
  /\ UNCHANGED notSchedVars

\* lastIndexedAt = new Date() is told by the job that wrote it (0: null).
IndexReady(w) ==
  /\ workers[w].pc = "index_ready"
  /\ SetResource(workers[w].res,
       [resources[workers[w].res] EXCEPT
          !.vectorStatus = "ready", !.vectorError = "",
          !.status = deriveLegacyStatus(normalizeContentStatus(workers[w].rcs),
                                        "ready"),
          !.chunkCount = workers[w].inserted,
          !.lastIndexedAt = workers[w].job])
  /\ SetWorker(w, [workers[w] EXCEPT !.pc = "index_complete"])
  /\ UNCHANGED <<clock, jobs, handlers, activeResourceQueues,
                 resourceRuntimeOverrides, faults, chunks, disk, indexed>>
  /\ UNCHANGED notSchedVars

IndexComplete(w) ==
  /\ workers[w].pc = "index_complete"
  /\ SetJob(workers[w].job,
            CompletedRow(jobs[workers[w].job], workers[w].warnings))
  /\ indexed' = [indexed EXCEPT ![workers[w].res] = chunks[workers[w].res]]
  /\ SetWorker(w, NextIteration(workers[w]))
  /\ UNCHANGED <<clock, handlers, activeResourceQueues,
                 resourceRuntimeOverrides, faults, resources, chunks, disk>>
  /\ UNCHANGED notSchedVars


\* ------------------------------------------------------------------------
\* Failures: the catch of processResourceQueue and markJobFailed
\* ------------------------------------------------------------------------
\* Positions inside the try block whose awaited database statement can reject.
TryPcs == {"load", "sync_mark", "sync_ready", "sync_complete", "index_mark",
           "index_found", "index_chunked", "delete", "insert", "batch_progress",
           "index_clear", "index_ready", "index_complete"}

\* Positions of processResourceQueue outside the try block.
BarePcs == {"select", "fail_job", "fail_load", "fail_res"}

\* The awaited statement rejects and changes nothing; the catch takes over.
ThrowInJob(w) ==
  /\ workers[w].pc \in TryPcs
  /\ faults < MaxFaults
  /\ faults' = faults + 1
  /\ SetWorker(w, [workers[w] EXCEPT !.pc = "fail_job", !.err = "database error"])
  /\ UNCHANGED <<clock, jobs, handlers, activeResourceQueues,
                 resourceRuntimeOverrides, resources, chunks, disk, indexed>>
  /\ UNCHANGED notSchedVars

FailedRow(row, message) ==
  [row EXCEPT !.status = "failed", !.error = message, !.progress = 100,
              !.completedAt = clock]

\* markJobFailed: update index_jobs
FailJob(w) ==
  /\ workers[w].pc = "fail_job"
  /\ SetJob(workers[w].job, FailedRow(jobs[workers[w].job], workers[w].err))
  /\ SetWorker(w, [workers[w] EXCEPT !.pc = "fail_load"])
  /\ UNCHANGED <<clock, handlers, activeResourceQueues,
                 resourceRuntimeOverrides, faults, resources, chunks, disk,
                 indexed>>
  /\ UNCHANGED notSchedVars

\* markJobFailed: select contentStatus, vectorStatus from resources
FailLoad(w) ==
  /\ workers[w].pc = "fail_load"
  /\ SetWorker(w, [workers[w] EXCEPT
                     !.pc = "fail_res",
                     !.rcs = resources[workers[w].res].contentStatus,
                     !.rvs = resources[workers[w].res].vectorStatus])
  /\ UNCHANGED <<clock, jobs, handlers, activeResourceQueues,
                 resourceRuntimeOverrides, faults, resources, chunks, disk,
                 indexed>>
  /\ UNCHANGED notSchedVars

\* markJobFailed: update resources
FailResource(w) ==
  /\ workers[w].pc = "fail_res"
  /\ SetResource(workers[w].res,
       IF workers[w].jtype = "sync"
         THEN [resources[workers[w].res] EXCEPT
                 !.contentStatus = "failed", !.contentError = workers[w].err,
                 !.status = deriveLegacyStatus("failed",
                              normalizeVectorStatus(workers[w].rvs))]
         ELSE [resources[workers[w].res] EXCEPT
                 !.vectorStatus = "failed", !.vectorError = workers[w].err,
                 !.status = deriveLegacyStatus(
                              normalizeContentStatus(workers[w].rcs), "failed")])
  /\ SetWorker(w, NextIteration(workers[w]))
  /\ UNCHANGED <<clock, jobs, handlers, activeResourceQueues,
                 resourceRuntimeOverrides, faults, chunks, disk, indexed>>
  /\ UNCHANGED notSchedVars

\* A git subprocess of the sync job never exits (a stalled network, a
\* credential prompt): runBunCommand awaits proc.exited and sets no timer,
\* so the await of runSyncJob never settles.
SubprocessHangs(w) ==
  /\ workers[w].pc = "sync_work"
  /\ resources[workers[w].res].type = "git"
  /\ faults < MaxFaults
  /\ faults' = faults + 1
  /\ SetWorker(w, [workers[w] EXCEPT !.pc = "git_hung"])
  /\ UNCHANGED <<clock, jobs, handlers, activeResourceQueues,
                 resourceRuntimeOverrides, resources, chunks, disk, indexed>>
  /\ UNCHANGED notSchedVars

\* A statement outside the try block rejects: processResourceQueue rejects
\* and the .finally releases the slot.
WorkerCrash(w) ==
  /\ \/ workers[w].pc \in BarePcs
     \/ workers[w].pc = "selected" /\ workers[w].job # 0
  /\ faults < MaxFaults
  /\ faults' = faults + 1
  /\ ReleaseSlot(w)
  /\ UNCHANGED <<clock, jobs, handlers, resources, chunks, disk, indexed>>
  /\ UNCHANGED notSchedVars


\* ------------------------------------------------------------------------
\* NDJSON streams of routes/search.ts
\* ------------------------------------------------------------------------
MaxParts == 3
MaxPings == 2

\* Part types of a fullStream; "other" is any type the handlers do not map
\* (start-step, finish-step, reasoning, ...).
PartTypes == {"text-delta", "tool-call", "tool-result", "finish", "error", "other"}

RECURSIVE SeqsUpTo(_, _)
SeqsUpTo(S, n) ==
  IF n = 0 THEN {<< >>}
  ELSE LET shorter == SeqsUpTo(S, n - 1)
       IN shorter \cup {Append(q, x) : q \in {t \in shorter : Len(t) = n - 1}, x \in S}

\* answer: POST /api/search/answer/stream with a fullStream;
\* answer_empty: the same route when runAnswerStream found no source;
\* agent: /explore/stream and /research/stream with a streamResult;
\* agent_empty: the same routes when there is no indexed resource.
Entries == {"answer", "answer_empty", "agent", "agent_empty"}

Event(type, step) == [type |-> type, stepNumber |-> step]

TerminalTypes == {"done", "error"}

StreamInit ==
  /\ entry \in Entries
  /\ fullStream \in IF entry \in {"answer", "agent"}
                      THEN SeqsUpTo(PartTypes, MaxParts) ELSE {<< >>}
  /\ ending \in IF entry \in {"answer", "agent"} THEN {"return", "throw"}
                ELSE {"return"}
  /\ producer = "new"
  /\ stepNumber = 0
  /\ lastType = ""
  /\ heartbeat = FALSE
  /\ pings = 0
  /\ source = << >>
  /\ sourceClosed = FALSE
  /\ pump = "new"
  /\ response = << >>
  /\ responseState = "readable"
  /\ updateChecks = 0

\* controller.enqueue on the response stream throws once the stream is
\* closed or cancelled.
CanEnqueue == responseState = "readable"

\* controller.close() on the response stream (throws when not readable).
CloseResponse ==
  responseState' = IF responseState = "readable" THEN "closed" ELSE responseState

\* answer/stream, the branch without fullStream: start() runs to its end
\* inside the ReadableStream constructor.
AnswerEmptyStream ==
  /\ entry = "answer_empty"
  /\ producer = "new"
  /\ response' = <<Event("start", 0), Event("sources", 0),
                   Event("text-delta", 0), Event("done", 0)>>
  /\ updateChecks' = updateChecks + 1
  /\ responseState' = "closed"
  /\ producer' = "returned"
  /\ UNCHANGED <<entry, fullStream, ending, stepNumber, lastType, heartbeat,
                 pings, source, sourceClosed, pump>>
  /\ UNCHANGED notStreamVars

\* explore/stream and research/stream without a streamResult.
ErrorStream ==
  /\ entry = "agent_empty"
  /\ producer = "new"
  /\ response' = <<Event("error", 0)>>
  /\ responseState' = "closed"
  /\ producer' = "returned"
  /\ UNCHANGED <<entry, fullStream, ending, stepNumber, lastType, heartbeat,
                 pings, source, sourceClosed, pump, updateChecks>>
  /\ UNCHANGED notStreamVars

\* answer/stream: start() up to the first await of the for-await loop.
AnswerStart ==
  /\ entry = "answer"
  /\ producer = "new"
  /\ heartbeat' = TRUE
  /\ response' = <<Event("start", 0), Event("sources", 0)>>
  /\ producer' = "loop"
  /\ UNCHANGED <<entry, fullStream, ending, stepNumber, lastType, pings,
                 source, sourceClosed, pump, responseState, updateChecks>>
  /\ UNCHANGED notStreamVars

\* The event the answer/stream loop emits for a part ("none": no branch).
AnswerEventType(part) ==
  IF part = "text-delta" THEN "text-delta"
  ELSE IF part = "finish" THEN "done"
  ELSE IF part = "error" THEN "error"
  ELSE "none"

\* One iteration of the for-await loop. An emit that throws is caught by
\* the catch, whose own emit throws again: start() rejects.
AnswerPart ==
  /\ entry = "answer"
  /\ producer = "loop"
  /\ fullStream # << >>
  /\ LET type == AnswerEventType(Head(fullStream)) IN
       IF type = "none"
         THEN /\ fullStream' = Tail(fullStream)
              /\ UNCHANGED <<response, producer>>
         ELSE IF CanEnqueue
           THEN /\ response' = Append(response, Event(type, 0))
                /\ fullStream' = Tail(fullStream)
                /\ UNCHANGED producer
           ELSE /\ producer' = "threw"
                /\ UNCHANGED <<response, fullStream>>
  /\ UNCHANGED <<entry, ending, stepNumber, lastType, heartbeat, pings,
                 source, sourceClosed, pump, responseState, updateChecks>>
  /\ UNCHANGED notStreamVars

\* fullStream is exhausted: the loop ends or the iteration throws into the
\* catch; then heartbeat.stop(), scheduleGitUpdateChecks, controller.close().
AnswerEnd ==
  /\ entry = "answer"
  /\ producer = "loop"
  /\ fullStream = << >>
  /\ IF ending = "throw" /\ ~CanEnqueue
       THEN /\ producer' = "threw"
            /\ UNCHANGED <<response, heartbeat, updateChecks, responseState>>
       ELSE /\ response' = IF ending = "throw"
                             THEN Append(response, Event("error", 0))
                             ELSE response
            /\ heartbeat' = FALSE
            /\ updateChecks' = updateChecks + 1
            /\ CloseResponse
            /\ producer' = "returned"
  /\ UNCHANGED <<entry, fullStream, ending, stepNumber, lastType, pings,
                 source, sourceClosed, pump>>
  /\ UNCHANGED notStreamVars


\* createCheckedAgentNdjsonStream: createAgentNdjsonStream's start() runs up
\* to its first await (heartbeat set, start emitted on the source stream),
\* then the start() of the checked stream takes the reader of the source.
AgentStart ==
  /\ entry = "agent"
  /\ producer = "new"
  /\ heartbeat' = TRUE
  /\ stepNumber' = 0
  /\ lastType' = ""
  /\ source' = <<Event("start", 0)>>
  /\ producer' = "loop"
  /\ pump' = "reading"
  /\ UNCHANGED <<entry, fullStream, ending, pings, sourceClosed, response,
                 responseState, updateChecks>>
  /\ UNCHANGED notStreamVars

\* stepNumber after a part of the given type.
NextStepNumber(part) ==
  IF part = "tool-call" /\ lastType # "tool-call" THEN stepNumber + 1
  ELSE stepNumber

\* The event createAgentNdjsonStream emits for a part ("none": no emit).
AgentEventType(part) ==
  IF part \in {"text-delta", "tool-call", "tool-result", "error"} THEN part
  ELSE IF part = "finish" THEN "done"
  ELSE "none"

AgentEvent(part) ==
  Event(AgentEventType(part),
        IF part \in {"tool-call", "tool-result"} THEN NextStepNumber(part) ELSE 0)

\* One iteration of the for-await loop of createAgentNdjsonStream. Nothing
\* cancels or closes the source stream before the loop ends: emit succeeds.
AgentPart ==
  /\ entry = "agent"
  /\ producer = "loop"
  /\ fullStream # << >>
  /\ LET part == Head(fullStream) IN
       /\ source' = IF AgentEventType(part) = "none" THEN source
                    ELSE Append(source, AgentEvent(part))
       /\ stepNumber' = NextStepNumber(part)
       /\ lastType' = part
  /\ fullStream' = Tail(fullStream)
  /\ UNCHANGED <<entry, ending, producer, heartbeat, pings, sourceClosed,
                 pump, response, responseState, updateChecks>>
  /\ UNCHANGED notStreamVars

\* fullStream is exhausted: the loop ends or the catch emits error; then
\* heartbeat.stop() and controller.close() of the source stream.
AgentEnd ==
  /\ entry = "agent"
  /\ producer = "loop"
  /\ fullStream = << >>
  /\ source' = IF ending = "throw" THEN Append(source, Event("error", 0))
               ELSE source
  /\ heartbeat' = FALSE
  /\ sourceClosed' = TRUE
  /\ producer' = "returned"
  /\ UNCHANGED <<entry, fullStream, ending, stepNumber, lastType, pings,
                 pump, response, responseState, updateChecks>>
  /\ UNCHANGED notStreamVars

\* One reader.read() of the checked stream and what follows it: the chunk
\* is enqueued on the response stream; when the source is done or the
\* enqueue throws, the finally calls onDone and closes.
Pump ==
  /\ entry = "agent"
  /\ pump = "reading"
  /\ IF source # << >>
       THEN /\ source' = Tail(source)
            /\ IF CanEnqueue
                 THEN /\ response' = Append(response, Head(source))
                      /\ UNCHANGED <<pump, updateChecks, responseState>>
                 ELSE /\ updateChecks' = updateChecks + 1
                      /\ pump' = "finished"
                      /\ UNCHANGED <<response, responseState>>
       ELSE /\ sourceClosed
            /\ updateChecks' = updateChecks + 1
            /\ CloseResponse
            /\ pump' = "finished"
            /\ UNCHANGED <<source, response>>
  /\ UNCHANGED <<entry, fullStream, ending, producer, stepNumber, lastType,
                 heartbeat, pings, sourceClosed>>
  /\ UNCHANGED notStreamVars

\* The interval of createHeartbeat fires: emit ping on the controller the
\* heartbeat was created with; an emit that throws clears the interval.
Tick ==
  /\ heartbeat
  /\ IF entry = "agent"
       THEN /\ pings < MaxPings
            /\ source' = Append(source, Event("ping", 0))
            /\ pings' = pings + 1
            /\ UNCHANGED <<response, heartbeat>>
       ELSE IF CanEnqueue
         THEN /\ pings < MaxPings
              /\ response' = Append(response, Event("ping", 0))
              /\ pings' = pings + 1
              /\ UNCHANGED <<source, heartbeat>>
         ELSE /\ heartbeat' = FALSE
              /\ UNCHANGED <<source, response, pings>>
  /\ UNCHANGED <<entry, fullStream, ending, producer, stepNumber, lastType,
                 sourceClosed, pump, responseState, updateChecks>>
  /\ UNCHANGED notStreamVars

\* The consumer goes away: the response stream is cancelled. No stream of
\* routes/search.ts has a cancel callback.
Disconnect ==
  /\ producer # "new"
  /\ responseState = "readable"
  /\ responseState' = "cancelled"
  /\ UNCHANGED <<entry, fullStream, ending, producer, stepNumber, lastType,
                 heartbeat, pings, source, sourceClosed, pump, response,
                 updateChecks>>
  /\ UNCHANGED notStreamVars

StreamNext ==
  \/ AnswerEmptyStream \/ ErrorStream
  \/ AnswerStart \/ AnswerPart \/ AnswerEnd
  \/ AgentStart \/ AgentPart \/ AgentEnd \/ Pump
  \/ Tick \/ Disconnect

\* No request is streaming.
StreamQuiet ==
  /\ entry = "agent_empty"
  /\ StreamInit

\* No job is enqueued.
SchedQuiet ==
  /\ resources = [r \in Resources |-> NewResource("local")]
  /\ SchedInit

\* ------------------------------------------------------------------------
\* Hybrid search (lib/search.ts)
\* ------------------------------------------------------------------------
HYBRID_RRF_K == 60
CANDIDATE_MULTIPLIER == 4
TEXT_SEARCH_TIMEOUT_MS == 10000
VECTOR_SEARCH_TIMEOUT_MS == 10000
\* Time is followed up to MaxElapsed milliseconds, second by second.
MaxElapsed == 12000
TEXT_CONTEXT_LINES == 15
TEXT_MAX_WINDOW_LINES == 60
TEXT_MERGE_GAP == 10

\* Scores are rationals <<numerator, denominator>>, denominator positive.
RatGreater(a, b) == a[1] * b[2] > b[1] * a[2]

\* The searched resource: a local directory with two files, one chunk row
\* per file. A file is the sequence of its newline-terminated lines.
SearchResourceId == "demo"
Paths == {"a.txt", "b.txt"}
Orders == {<<"a.txt", "b.txt">>, <<"b.txt", "a.txt">>}
ChunkIdOf == [f \in Paths |-> IF f = "a.txt" THEN "chunk-a" ELSE "chunk-b"]
Corpora ==
  {[f \in Paths |-> IF f = "a.txt" THEN <<"alpha", "beta">> ELSE b] :
     b \in {<<"beta", "gamma">>, <<"beta", "beta">>}}
Queries == {"", "beta"}
Modes == {"hybrid", "text", "vector"}
\* alpha and topK as the request gives them. 0 stands for an absent topK as
\* well as for a topK of 0 (!topK holds for both); <<0, 0>> stands for an
\* alpha that is absent or NaN.
AlphaInputs == {<<0, 1>>, <<1, 2>>, <<1, 1>>}
TopKInputs == {0, 1, 5}
\* 1 - cosine distance of the chunk rows, in the order of the distance.
Similarities == {<<<<1, 1>>, <<1, 1>>>>, <<<<1, 1>>, <<0, 1>>>>, <<<<0, 1>>, <<0, 1>>>>}

normalizeTopK(topK) == IF topK = 0 THEN 10 ELSE Min(Max(topK, 1), 50)

normalizeAlpha(alpha) ==
  IF alpha[2] = 0 THEN <<1, 2>>
  ELSE IF RatGreater(<<0, 1>>, alpha) THEN <<0, 1>>
  ELSE IF RatGreater(alpha, <<1, 1>>) THEN <<1, 1>>
  ELSE alpha

\* runLocalGrep for a one-keyword query: rg --fixed-strings, the lines of
\* the file that contain the keyword, ascending.
MatchLines(lines, keyword) ==
  {i \in 1..Len(lines) : lines[i] = keyword}

RECURSIVE Ascending(_)
Ascending(S) ==
  IF S = {} THEN << >>
  ELSE LET m == CHOOSE x \in S : \A y \in S : x <= y
       IN <<m>> \o Ascending(S \ {m})

RECURSIVE MergeRanges(_, _, _)
\* readContextForMatches: matches within TEXT_MERGE_GAP lines are merged.
MergeRanges(filepath, lines, open) ==
  IF lines = << >> THEN <<open>>
  ELSE IF Head(lines) - open.lineEnd <= TEXT_MERGE_GAP
    THEN MergeRanges(filepath, Tail(lines),
                     [open EXCEPT !.lineEnd = Head(lines), !.hits = @ + 1])
    ELSE <<open>> \o MergeRanges(filepath, Tail(lines),
                     [filepath |-> filepath, lineStart |-> Head(lines),
                      lineEnd |-> Head(lines), hits |-> 1])

RangesOfFile(filepath, lines) ==
  IF lines = << >> THEN << >>
  ELSE MergeRanges(filepath, Tail(lines),
                   [filepath |-> filepath, lineStart |-> Head(lines),
                    lineEnd |-> Head(lines), hits |-> 1])

RECURSIVE SortByHits(_)
\* ranges.sort((a, b) => b.hits - a.hits), a stable sort
SortByHits(seq) ==
  IF Len(seq) <= 1 THEN seq
  ELSE LET rest == SortByHits(Tail(seq))
           k == Cardinality({i \in 1..Len(rest) : rest[i].hits > Head(seq).hits})
       IN SubSeq(rest, 1, k) \o <<Head(seq)>> \o SubSeq(rest, k + 1, Len(rest))

RECURSIVE SortByScore(_)
\* sort((a, b) => b.score - a.score), a stable sort
SortByScore(seq) ==
  IF Len(seq) <= 1 THEN seq
  ELSE LET rest == SortByScore(Tail(seq))
           k == Cardinality({i \in 1..Len(rest) :
                               RatGreater(rest[i].score, Head(seq).score)})
       IN SubSeq(rest, 1, k) \o <<Head(seq)>> \o SubSeq(rest, k + 1, Len(rest))

Take(seq, n) == SubSeq(seq, 1, Min(n, Len(seq)))

\* The result readContextForMatches builds for the range at position
\* index of the sorted ranges; lines is the content of the file of the range.
TextResult(range, index, lines) ==
  LET totalLines == Len(lines) + 1
      contextStart == Max(0, range.lineStart - 1 - TEXT_CONTEXT_LINES)
      contextEnd == Min(totalLines, range.lineEnd + TEXT_CONTEXT_LINES)
      windowEnd == Min(contextEnd, contextStart + TEXT_MAX_WINDOW_LINES)
      rank == index
  IN [chunkId |-> "", resourceId |-> SearchResourceId,
      filepath |-> range.filepath,
      lineStart |-> contextStart + 1, lineEnd |-> windowEnd,
      score |-> <<2000 + Min(range.hits, 5) * (HYBRID_RRF_K + rank),
                  2000 * (HYBRID_RRF_K + rank)>>]

RECURSIVE RangesInOrder(_, _, _)
\* The ranges of the files in the order rg reported the files.
RangesInOrder(order, files, keyword) ==
  IF order = << >> THEN << >>
  ELSE RangesOfFile(Head(order), Ascending(MatchLines(files[Head(order)], keyword)))
       \o RangesInOrder(Tail(order), files, keyword)

readContextForMatches(c, keyword) ==
  LET ranges == SortByHits(RangesInOrder(c.grepOrder, c.files, keyword))
  IN [i \in 1..Len(ranges) |-> TextResult(ranges[i], i, c.files[ranges[i].filepath])]

runTextSearch(c, query, topK) ==
  Take(SortByScore(readContextForMatches(c, query)), topK * CANDIDATE_MULTIPLIER)

\* where vectorStatus = 'ready' and embedding is not null
\* order by distance limit topK * CANDIDATE_MULTIPLIER
runVectorSearch(c, topK) ==
  IF ~c.vectorReady THEN << >>
  ELSE LET rows == SelectSeq([i \in 1..Len(c.nearest) |->
                                [chunkId |-> ChunkIdOf[c.nearest[i]],
                                 resourceId |-> SearchResourceId,
                                 filepath |-> c.nearest[i],
                                 lineStart |-> 1,
                                 lineEnd |-> Len(c.files[c.nearest[i]]),
                                 score |-> c.similarity[i]]],
                             LAMBDA row : c.embedded[row.filepath])
       IN Take(rows, topK * CANDIDATE_MULTIPLIER)

\* chunkId if present, else `${resourceId}:${filepath}:${lineStart}`; a
\* chunk id (a uuid) is never equal to a composite key.
resultKey(result) ==
  IF result.chunkId # "" THEN <<"chunk", result.chunkId, "", 0>>
  ELSE <<"place", result.resourceId, result.filepath, result.lineStart>>

\* Map.prototype.set: an existing key keeps its position.
MapSet(merged, key, value) ==
  IF \E i \in 1..Len(merged) : merged[i].key = key
    THEN [i \in 1..Len(merged) |->
            IF merged[i].key = key THEN [key |-> key, value |-> value]
            ELSE merged[i]]
    ELSE Append(merged, [key |-> key, value |-> value])

MapHas(merged, key) == \E i \in 1..Len(merged) : merged[i].key = key

MapGet(merged, key) ==
  merged[CHOOSE i \in 1..Len(merged) : merged[i].key = key].value

RECURSIVE MergeText(_, _, _)
\* The first loop of mergeHybridResults (rank 0 stands for null).
MergeText(texts, index, merged) ==
  IF index > Len(texts) THEN merged
  ELSE MergeText(texts, index + 1,
         MapSet(merged, resultKey(texts[index]),
                [result |-> texts[index], textRank |-> index,
                 vectorRank |-> 0]))

RECURSIVE MergeVector(_, _, _)
\* The second loop of mergeHybridResults.
MergeVector(vectors, index, merged) ==
  IF index > Len(vectors) THEN merged
  ELSE LET key == resultKey(vectors[index])
       IN MergeVector(vectors, index + 1,
            IF ~MapHas(merged, key)
              THEN MapSet(merged, key,
                     [result |-> vectors[index], textRank |-> 0,
                      vectorRank |-> index])
              ELSE LET existing == MapGet(merged, key)
                   IN MapSet(merged, key,
                        [existing EXCEPT !.vectorRank =
                           IF @ = 0 THEN index ELSE Min(@, index)]))

\* The score of the vector channel alone.
VectorOnlyScore(alpha, textRank, vectorRank) ==
  <<alpha[1] * (IF vectorRank = 0 THEN 0 ELSE 1),
    alpha[2] * (HYBRID_RRF_K + vectorRank)>>

\* alpha * vectorScore + (1 - alpha) * textScore with the channel scores
\* 1 / (HYBRID_RRF_K + rank), 0 for a channel without rank.
FusedScore(alpha, textRank, vectorRank) ==
  <<alpha[1] * (IF vectorRank = 0 THEN 0 ELSE 1) * (HYBRID_RRF_K + textRank)
      + (alpha[2] - alpha[1]) * (IF textRank = 0 THEN 0 ELSE 1)
          * (HYBRID_RRF_K + vectorRank),
    alpha[2] * (HYBRID_RRF_K + vectorRank) * (HYBRID_RRF_K + textRank)>>

SearchResult(result, score, matchType, matchSources) ==
  [chunkId |-> result.chunkId, resourceId |-> result.resourceId,
   filepath |-> result.filepath, lineStart |-> result.lineStart,
   lineEnd |-> result.lineEnd, score |-> score, matchType |-> matchType,
   matchSources |-> matchSources]

Fused(entry_, alpha) ==
  LET hasText == entry_.textRank # 0
      hasVector == entry_.vectorRank # 0
  IN SearchResult(entry_.result,
       FusedScore(alpha, entry_.textRank, entry_.vectorRank),
       IF hasText /\ hasVector THEN "hybrid"
       ELSE IF hasVector THEN "vector" ELSE "text",
       (IF hasText THEN <<"text">> ELSE << >>)
         \o (IF hasVector THEN <<"vector">> ELSE << >>))

mergeHybridResults(texts, vectors, alpha, topK) ==
  LET merged == MergeVector(vectors, 1, MergeText(texts, 1, << >>))
  IN Take(SortByScore([i \in 1..Len(merged) |-> Fused(merged[i].value, alpha)]),
          topK)

SearchInit ==
  /\ corpus \in {[files |-> f, embedded |-> e, vectorReady |-> v,
                  grepOrder |-> g, nearest |-> n, similarity |-> sim] :
                   f \in Corpora, e \in [Paths -> BOOLEAN], v \in BOOLEAN,
                   g \in Orders, n \in Orders, sim \in Similarities}
  /\ input \in {[query |-> q, mode |-> m, alpha |-> al, topK |-> k] :
                  q \in Queries, m \in Modes, al \in AlphaInputs,
                  k \in TopKInputs}
  /\ searchPc = "new"
  /\ textSettled = "pending"
  /\ vectorSettled = "pending"
  /\ textResults = << >>
  /\ vectorResults = << >>
  /\ searchResults = << >>
  /\ elapsed = 0
  /\ textWork = "idle"
  /\ vectorWork = "idle"
  /\ cancelled = FALSE

\* hybridSearch up to Promise.allSettled: an empty query returns [], a
\* channel the mode excludes is an already resolved promise.
SearchStart ==
  /\ searchPc = "new"
  /\ IF input.query = ""
       THEN /\ searchPc' = "done"
            /\ UNCHANGED <<textSettled, vectorSettled, textWork, vectorWork>>
       ELSE /\ searchPc' = "searching"
            /\ textSettled' = IF input.mode = "vector" THEN "fulfilled"
                              ELSE "pending"
            /\ vectorSettled' = IF input.mode = "text" THEN "fulfilled"
                                ELSE "pending"
            /\ textWork' = IF input.mode = "vector" THEN "idle" ELSE "running"
            /\ vectorWork' = IF input.mode = "text" THEN "idle" ELSE "running"
  /\ UNCHANGED <<corpus, input, textResults, vectorResults, searchResults,
                 elapsed, cancelled>>
  /\ UNCHANGED notSearchVars

\* Mutation: no timer is ever set.
TimerNeverDue(now, timeoutMs) == FALSE

\* setTimeout(reject, timeoutMs) of withTimeout is due.
TimerDue(now, timeoutMs) == now >= timeoutMs

\* runTextSearch returns: Promise.race settles with it unless the timer
\* has rejected before.
TextSearchReturns ==
  /\ textWork = "running"
  /\ textWork' = "returned"
  /\ IF textSettled = "pending"
       THEN /\ textResults' = runTextSearch(corpus, input.query,
                                            normalizeTopK(input.topK))
            /\ textSettled' = "fulfilled"
       ELSE UNCHANGED <<textResults, textSettled>>
  /\ UNCHANGED <<corpus, input, searchPc, vectorSettled, vectorResults,
                 searchResults, elapsed, vectorWork, cancelled>>
  /\ UNCHANGED notSearchVars

\* The resource query of runTextSearch rejects.
TextSearchRejects ==
  /\ textWork = "running"
  /\ textWork' = "threw"
  /\ textSettled' = IF textSettled = "pending" THEN "rejected" ELSE textSettled
  /\ UNCHANGED <<corpus, input, searchPc, vectorSettled, textResults,
                 vectorResults, searchResults, elapsed, vectorWork, cancelled>>
  /\ UNCHANGED notSearchVars

\* The timer of the text withTimeout fires: "text search timed out". The
\* promise of runTextSearch is left running.
TextTimeout ==
  /\ textSettled = "pending"
  /\ TimerDue(elapsed, TEXT_SEARCH_TIMEOUT_MS)
  /\ textSettled' = "rejected"
  /\ UNCHANGED <<corpus, input, searchPc, vectorSettled, textResults,
                 vectorResults, searchResults, elapsed, textWork, vectorWork,
                 cancelled>>
  /\ UNCHANGED notSearchVars

VectorSearchReturns ==
  /\ vectorWork = "running"
  /\ vectorWork' = "returned"
  /\ IF vectorSettled = "pending"
       THEN /\ vectorResults' = runVectorSearch(corpus, normalizeTopK(input.topK))
            /\ vectorSettled' = "fulfilled"
       ELSE UNCHANGED <<vectorResults, vectorSettled>>
  /\ UNCHANGED <<corpus, input, searchPc, textSettled, textResults,
                 searchResults, elapsed, textWork, cancelled>>
  /\ UNCHANGED notSearchVars

\* embed of the query fails or the database query fails.
VectorSearchRejects ==
  /\ vectorWork = "running"
  /\ vectorWork' = "threw"
  /\ vectorSettled' = IF vectorSettled = "pending" THEN "rejected"
                      ELSE vectorSettled
  /\ UNCHANGED <<corpus, input, searchPc, textSettled, textResults,
                 vectorResults, searchResults, elapsed, textWork, cancelled>>
  /\ UNCHANGED notSearchVars

\* The timer of the vector withTimeout fires: "vector search timed out".
VectorTimeout ==
  /\ vectorSettled = "pending"
  /\ TimerDue(elapsed, VECTOR_SEARCH_TIMEOUT_MS)
  /\ vectorSettled' = "rejected"
  /\ UNCHANGED <<corpus, input, searchPc, textSettled, textResults,
                 vectorResults, searchResults, elapsed, textWork, vectorWork,
                 cancelled>>
  /\ UNCHANGED notSearchVars

\* A callback that is ready to run: a timer that is due, the continuation
\* of hybridSearch after Promise.allSettled. Nothing blocks the event loop.
CallbackReady ==
  \/ textSettled = "pending" /\ TimerDue(elapsed, TEXT_SEARCH_TIMEOUT_MS)
  \/ vectorSettled = "pending" /\ TimerDue(elapsed, VECTOR_SEARCH_TIMEOUT_MS)
  \/ searchPc = "searching" /\ textSettled # "pending"
                            /\ vectorSettled # "pending"

\* A second passes while the search or one of its subtracks is under way.
ClockTick ==
  /\ searchPc = "searching" \/ textWork = "running" \/ vectorWork = "running"
  /\ ~CallbackReady
  /\ elapsed + 1000 <= MaxElapsed
  /\ elapsed' = elapsed + 1000
  /\ UNCHANGED <<corpus, input, searchPc, textSettled, vectorSettled,
                 textResults, vectorResults, searchResults, textWork,
                 vectorWork, cancelled>>
  /\ UNCHANGED notSearchVars

\* The caller gives the search up (its request is aborted, its agent is
\* stopped). hybridSearch takes no AbortSignal: nothing is told to it.
SearchCancel ==
  /\ searchPc = "searching"
  /\ ~cancelled
  /\ cancelled' = TRUE
  /\ UNCHANGED <<corpus, input, searchPc, textSettled, vectorSettled,
                 textResults, vectorResults, searchResults, elapsed, textWork,
                 vectorWork>>
  /\ UNCHANGED notSearchVars

\* The result of one channel alone: slice(0, topK) with the channel's name.
ChannelResults(results, topK, channel) ==
  LET cut == Take(results, topK)
  IN [i \in 1..Len(cut) |->
        SearchResult(cut[i], cut[i].score, channel, <<channel>>)]

\* Mutation: the failure of any subtrack is rethrown.
AnyFailurePropagates(mode, textStatus, vectorStatus) ==
  textStatus = "rejected" \/ vectorStatus = "rejected"

\* The rejection hybridSearch rethrows: that of the one subtrack its mode
\* forces.
FailurePropagates(mode, textStatus, vectorStatus) ==
  \/ mode = "text" /\ textStatus = "rejected"
  \/ mode = "vector" /\ vectorStatus = "rejected"

\* hybridSearch after Promise.allSettled.
SearchReturn ==
  /\ searchPc = "searching"
  /\ textSettled # "pending"
  /\ vectorSettled # "pending"
  /\ LET topK == normalizeTopK(input.topK)
         alpha == normalizeAlpha(input.alpha)
     IN IF FailurePropagates(input.mode, textSettled, vectorSettled)
          THEN /\ searchPc' = "threw"
               /\ UNCHANGED searchResults
          ELSE /\ searchPc' = "done"
               /\ searchResults' =
                    IF input.mode = "text"
                      THEN ChannelResults(textResults, topK, "text")
                    ELSE IF input.mode = "vector"
                      THEN ChannelResults(vectorResults, topK, "vector")
                    ELSE mergeHybridResults(textResults, vectorResults, alpha, topK)
  /\ UNCHANGED <<corpus, input, textSettled, vectorSettled, textResults,
                 vectorResults, elapsed, textWork, vectorWork, cancelled>>
  /\ UNCHANGED notSearchVars

SearchNext ==
  \/ SearchStart
  \/ TextSearchReturns \/ TextSearchRejects \/ TextTimeout
  \/ VectorSearchReturns \/ VectorSearchRejects \/ VectorTimeout
  \/ SearchReturn
  \/ ClockTick \/ SearchCancel

\* No search is running.
SearchQuiet ==
  /\ corpus = [files |-> [f \in Paths |-> IF f = "a.txt" THEN <<"alpha", "beta">>
                                         ELSE <<"beta", "gamma">>],
               embedded |-> [f \in Paths |-> TRUE], vectorReady |-> TRUE,
               grepOrder |-> <<"a.txt", "b.txt">>,
               nearest |-> <<"a.txt", "b.txt">>,
               similarity |-> <<<<1, 1>>, <<1, 1>>>>]
  /\ input = [query |-> "", mode |-> "hybrid", alpha |-> <<1, 2>>, topK |-> 0]
  /\ SearchInit

\* ------------------------------------------------------------------------
\* Readers of the files of a resource: text search, the tool routes, the
\* agent tools
\* ------------------------------------------------------------------------
\* where contentStatus = 'ready' or vectorStatus = 'ready' (agent tools)
loadScopedResources ==
  {r \in Resources : \/ resources[r].contentStatus = "ready"
                     \/ resources[r].vectorStatus = "ready"}

\* where contentStatus = 'ready' (runTextSearch, routes/tools.ts)
loadTextSearchableResources ==
  {r \in Resources : resources[r].contentStatus = "ready"}

IdleReader == [pc |-> "idle", kind |-> "none", scope |-> {}, res |-> 0]

ReadInit == reader = IdleReader

\* The request selects the resources it may read.
ReaderLoad(kind) ==
  /\ reader.pc = "idle"
  /\ reader' = [pc |-> "loaded", kind |-> kind,
                scope |-> IF kind = "agent" THEN loadScopedResources
                          ELSE loadTextSearchableResources,
                res |-> 0]
  /\ UNCHANGED notReadVars

\* rg, readdir or readFile starts under the root of a selected resource.
ReaderOpen(r) ==
  /\ reader.pc = "loaded"
  /\ r \in reader.scope
  /\ reader' = [reader EXCEPT !.pc = "reading", !.res = r]
  /\ UNCHANGED notReadVars

\* The read returns; an agent goes on with its next tool call.
ReaderClose ==
  /\ reader.pc = "reading"
  /\ reader' = [reader EXCEPT !.pc = IF reader.kind = "agent" THEN "loaded"
                                     ELSE "done",
                              !.res = 0]
  /\ UNCHANGED notReadVars

ReaderNext ==
  \/ \E kind \in {"text", "agent"} : ReaderLoad(kind)
  \/ \E r \in Resources : ReaderOpen(r)
  \/ ReaderClose

\* ------------------------------------------------------------------------
\* POST /api/resources (createResourceRoute)
\* ------------------------------------------------------------------------
MaxCreates == 2
CreateIds == 1..MaxCreates

\* The authenticated user of a request ("null" when there is none) and
\* its body; projectKey is "absent" when the field is missing.
CreateInputs ==
  [user : {"null", "u1"}, name : {"docs", "api"},
   scope : {"global", "project"}, projectKey : {"absent", "web"}]

\* input.scope === "project" ? (input.projectKey ?? "") : ""
normalizedProjectKey(in) ==
  IF in.scope = "project"
    THEN (IF in.projectKey = "absent" THEN "" ELSE in.projectKey)
    ELSE ""

\* The row the handler inserts.
CreateValues(in) ==
  [userId |-> in.user, name |-> in.name, scope |-> in.scope,
   projectKey |-> normalizedProjectKey(in)]

\* ownerFilter and the three eq conditions of the handler's select;
\* isNull(userId) matches the rows without owner.
existing(in) ==
  {i \in 1..Len(createdRows) : createdRows[i] = CreateValues(in)}

\* resources_user_scope_project_name_idx: a unique btree index; rows with
\* a null user_id never conflict (nulls are distinct).
ViolatesUniqueIndex(row) ==
  /\ row.userId # "null"
  /\ \E i \in 1..Len(createdRows) : createdRows[i] = row

CreateInit ==
  /\ createRequests \in [CreateIds -> [pc : {"new"}, input : CreateInputs]]
  /\ createdRows = << >>

\* select id from resources where ... limit 1; 409 when a row exists.
CreateCheck(c) ==
  /\ createRequests[c].pc = "new"
  /\ createRequests' = [createRequests EXCEPT ![c].pc =
                          IF existing(createRequests[c].input) # {}
                            THEN "409" ELSE "checked"]
  /\ UNCHANGED createdRows
  /\ UNCHANGED notCreateVars

\* db.insert(resources).values(values): 201, or the insert throws on the
\* unique index.
CreateInsert(c) ==
  /\ createRequests[c].pc = "checked"
  /\ LET row == CreateValues(createRequests[c].input) IN
       IF ViolatesUniqueIndex(row)
         THEN /\ createRequests' = [createRequests EXCEPT ![c].pc = "threw"]
              /\ UNCHANGED createdRows
         ELSE /\ createRequests' = [createRequests EXCEPT ![c].pc = "201"]
              /\ createdRows' = Append(createdRows, row)
  /\ UNCHANGED notCreateVars

CreateNext ==
  \/ \E c \in CreateIds : CreateCheck(c)
  \/ \E c \in CreateIds : CreateInsert(c)

\* No create request is pending.
CreateQuiet ==
  /\ createRequests = [c \in CreateIds |->
        [pc |-> "new",
         input |-> [user |-> "null", name |-> "docs", scope |-> "global",
                    projectKey |-> "absent"]]]
  /\ CreateInit

\* ------------------------------------------------------------------------
\* mergeHybridResults on candidate lists (lib/search.ts)
\* ------------------------------------------------------------------------
\* Candidate lists have up to MaxCandidates results.
MaxCandidates == 3

\* A PartialSearchResult whose resultKey is key.
Candidate(key) ==
  [chunkId |-> key, resourceId |-> SearchResourceId, filepath |-> key,
   lineStart |-> 1, lineEnd |-> 1, score |-> <<1, 1>>]

\* The lists of up to MaxCandidates candidates over five keys; a key may
\* occur more than once in a list.
CandidateLists ==
  {[i \in 1..Len(q) |-> Candidate(q[i])] :
     q \in SeqsUpTo({"T1", "T2", "T3", "V2", "V3"}, MaxCandidates)}

FuseInit ==
  fuse \in [textResults : CandidateLists, vectorResults : CandidateLists,
            alpha : {<<1, 2>>, <<1, 4>>}, topK : {1, 3, 10}, pc : {"new"},
            merged : {<< >>}, swapped : {<< >>}]

\* mergeHybridResults(textResults, vectorResults, alpha, topK)
FuseMerge ==
  /\ fuse.pc = "new"
  /\ fuse' = [fuse EXCEPT
       !.merged = mergeHybridResults(fuse.textResults, fuse.vectorResults,
                                     fuse.alpha, fuse.topK),
       !.pc = "merged"]
  /\ UNCHANGED notFuseVars

\* The same call with the two candidate lists exchanged.
FuseSwapped ==
  /\ fuse.pc = "merged"
  /\ fuse' = [fuse EXCEPT
       !.swapped = mergeHybridResults(fuse.vectorResults, fuse.textResults,
                                      fuse.alpha, fuse.topK),
       !.pc = "swapped"]
  /\ UNCHANGED notFuseVars

FuseNext == FuseMerge \/ FuseSwapped

\* No call of mergeHybridResults is followed.
FuseQuiet ==
  fuse = [textResults |-> << >>, vectorResults |-> << >>, alpha |-> <<1, 2>>,
          topK |-> 1, pc |-> "new", merged |-> << >>, swapped |-> << >>]

\* ------------------------------------------------------------------------
\* Asynchronous research jobs (lib/research-jobs.ts). The database rejects
\* no statement here.
\* ------------------------------------------------------------------------
MaxResearch == 2
ResearchIds == 1..MaxResearch

\* What runResearch returns, the messages of what it throws.
ResearchResults == {"report-1", "report-2"}
ResearchErrors == {"no sources", "model error"}

\* No row yet: createResearchJob has not been called.
NoResearchRow ==
  [status |-> "none", result |-> "", error |-> "", startedAt |-> FALSE,
   completedAt |-> FALSE]

ResearchInit ==
  research = [j \in ResearchIds |->
                [pc |-> "new", row |-> NoResearchRow, runs |-> 0,
                 returned |-> "", thrown |-> ""]]

\* createResearchJob: insert with status queued, then the background
\* runner is started without being awaited.
CreateResearchJob(j) ==
  /\ research[j].pc = "new"
  /\ research' = [research EXCEPT
       ![j].row = [NoResearchRow EXCEPT !.status = "queued"],
       ![j].pc = "mark_running"]
  /\ UNCHANGED notResearchVars

\* The update is lost: the row stays as it is.
ResearchUntouchedRow(row) == row

\* set status = 'running', startedAt = now
ResearchRunningRow(row) ==
  [row EXCEPT !.status = "running", !.startedAt = TRUE]

\* runResearchJobInBackground: mark as running, call runResearch.
MarkResearchRunning(j) ==
  /\ research[j].pc = "mark_running"
  /\ research' = [research EXCEPT
       ![j].row = ResearchRunningRow(@),
       ![j].runs = @ + 1,
       ![j].pc = "driver"]
  /\ UNCHANGED notResearchVars

\* runResearch returns its result.
DriverReturns(j, result) ==
  /\ research[j].pc = "driver"
  /\ research' = [research EXCEPT ![j].returned = result,
                                  ![j].pc = "mark_completed"]
  /\ UNCHANGED notResearchVars

\* runResearch throws.
DriverThrows(j, message) ==
  /\ research[j].pc = "driver"
  /\ research' = [research EXCEPT ![j].thrown = message,
                                  ![j].pc = "mark_failed"]
  /\ UNCHANGED notResearchVars

\* set status = 'completed', result, completedAt = now; then
\* scheduleGitUpdateChecks, which catches what its checks reject with.
MarkResearchCompleted(j) ==
  /\ research[j].pc = "mark_completed"
  /\ research' = [research EXCEPT
       ![j].row = [@ EXCEPT !.status = "completed",
                            !.result = research[j].returned,
                            !.completedAt = TRUE],
       ![j].pc = "done"]
  /\ UNCHANGED notResearchVars

\* The job is put back into the queue.
ResearchRequeuedRow(row, message) ==
  [row EXCEPT !.status = "queued", !.error = message]

\* set status = 'failed', error = message, completedAt = now
ResearchFailedRow(row, message) ==
  [row EXCEPT !.status = "failed", !.error = message, !.completedAt = TRUE]

\* The catch block of runResearchJobInBackground.
MarkResearchFailed(j) ==
  /\ research[j].pc = "mark_failed"
  /\ research' = [research EXCEPT
       ![j].row = ResearchFailedRow(@, research[j].thrown),
       ![j].pc = "done"]
  /\ UNCHANGED notResearchVars

ResearchStep(j) ==
  \/ CreateResearchJob(j)
  \/ MarkResearchRunning(j)
  \/ \E result \in ResearchResults : DriverReturns(j, result)
  \/ \E message \in ResearchErrors : DriverThrows(j, message)
  \/ MarkResearchCompleted(j)
  \/ MarkResearchFailed(j)

ResearchNext == \E j \in ResearchIds : ResearchStep(j)

\* ------------------------------------------------------------------------
\* The directory of a git resource (lib/git.ts) and DELETE
\* /api/resources/{id} (routes/resources.ts)
\* ------------------------------------------------------------------------
\* Git resources that were created and never synced: the row exists, the
\* directory REPO_STORAGE_PATH/<id> does not.
MaterializerInit ==
  materialized = [r \in Resources |-> [row |-> TRUE, dir |-> FALSE, job |-> "none"]]

\* POST /api/resources/{id}/sync: 404 without the row, else a sync job is
\* queued.
SyncRequested(r) ==
  /\ materialized[r].row
  /\ materialized[r].job \in {"none", "done"}
  /\ materialized' = [materialized EXCEPT ![r].job = "queued"]
  /\ UNCHANGED notMaterializerVars

\* processResourceQueue takes the job and runSyncJob selects the resource.
SyncSelectsResource(r) ==
  /\ materialized[r].job = "queued"
  /\ materialized' = [materialized EXCEPT ![r].job = "prepare"]
  /\ UNCHANGED notMaterializerVars

\* prepareGitRepository: mkdir of the repos root, git clone into
\* REPO_STORAGE_PATH/<id> when it has no .git directory, fetch, checkout.
prepareGitRepository(r) ==
  /\ materialized[r].job = "prepare"
  /\ materialized' = [materialized EXCEPT ![r].dir = TRUE, ![r].job = "update"]
  /\ UNCHANGED notMaterializerVars

\* update resources ... where id = r and update index_jobs ... where id =
\* jobId: statements that match no row once the resource is deleted.
SyncUpdatesResource(r) ==
  /\ materialized[r].job = "update"
  /\ materialized' = [materialized EXCEPT ![r].job = "done"]
  /\ UNCHANGED notMaterializerVars

\* delete from resources where id = r returning id: the rows of its jobs
\* and chunks go with it (on delete cascade), a queued job is never run.
DeletedRow(row) ==
  [row EXCEPT !.row = FALSE, !.job = IF @ = "queued" THEN "none" ELSE @]

\* The deleteResourceRoute handler.
DeleteResource(r) ==
  /\ materialized[r].row
  /\ materialized' = [materialized EXCEPT ![r] = DeletedRow(@)]
  /\ UNCHANGED notMaterializerVars

MaterializerNext ==
  \E r \in Resources :
    \/ SyncRequested(r) \/ SyncSelectsResource(r) \/ prepareGitRepository(r)
    \/ SyncUpdatesResource(r) \/ DeleteResource(r)

\* ------------------------------------------------------------------------
\* Specifications
\* ------------------------------------------------------------------------
WorkerStep(w) ==
  \/ SelectQueued(w) \/ Release(w) \/ MarkRunning(w) \/ LoadResource(w)
  \/ SyncMark(w) \/ SyncWork(w) \/ SyncReady(w) \/ SyncComplete(w)
  \/ IndexMark(w) \/ IndexCollect(w) \/ IndexFound(w) \/ IndexChunked(w)
  \/ EmbedBatch(w) \/ DeleteChunks(w) \/ InsertChunks(w) \/ BatchProgress(w)
  \/ IndexClear(w) \/ IndexReady(w) \/ IndexComplete(w)
  \/ FailJob(w) \/ FailLoad(w) \/ FailResource(w)

SchedNext ==
  \/ \E r \in Resources, t \in {"sync", "index"} : InsertBegin(r, t)
  \/ \E id \in JobIds : InsertCommit(id)
  \/ \E id \in JobIds : HandlerEnsure(id)
  \/ \E w \in WorkerIds : WorkerStep(w)
  \/ \E w \in WorkerIds : ThrowInJob(w)
  \/ \E w \in WorkerIds : WorkerCrash(w)
  \/ \E w \in WorkerIds : SubprocessHangs(w)

\* The first two statements of hybridSearch on any topK and alpha.
TopKRequests == (0 - 2)..52
AlphaRequests ==
  {<<0, 0>>, <<0 - 1, 2>>, <<0, 1>>, <<1, 4>>, <<1, 2>>, <<1, 1>>, <<3, 2>>}

NormalizeInit ==
  normalized \in {[topK |-> k, alpha |-> al, done |-> FALSE,
                    outTopK |-> 0, outAlpha |-> <<0, 1>>] :
                     k \in TopKRequests, al \in AlphaRequests}

NormalizeQuiet ==
  normalized = [topK |-> 0, alpha |-> <<0, 0>>, done |-> FALSE,
                outTopK |-> 0, outAlpha |-> <<0, 1>>]

NormalizeInput ==
  /\ ~normalized.done
  /\ normalized' = [normalized EXCEPT !.done = TRUE,
                                      !.outTopK = normalizeTopK(normalized.topK),
                                      !.outAlpha = normalizeAlpha(normalized.alpha)]
  /\ UNCHANGED notNormalizeVars

\* ------------------------------------------------------------------------
\* One git resource over several syncs and update checks. Commits of the
\* remote branch are numbered in the order they are pushed; 0 stands for
\* null (no commit, no directory). Every git command succeeds here.
\* ------------------------------------------------------------------------
MaxCommits == 3
MaxSyncs == 2
MaxChecks == 2

\* createResourceRoute: commit is the pinned commit of the request or null.
NewGitRow(commit) ==
  [commit |-> commit, contentStatus |-> "missing", lastLocalCommit |-> 0,
   lastRemoteCommit |-> 0, updateAvailable |-> FALSE]

GitInit ==
  \E pinned \in BOOLEAN :
    git = [remoteHead |-> 1, dirHead |-> 0, pinned |-> pinned,
           row |-> NewGitRow(IF pinned THEN 1 ELSE 0),
           syncPc |-> "idle", syncCommit |-> 0, fetchedHead |-> 0,
           syncLocal |-> 0, syncRemote |-> 0, syncs |-> 0,
           checkPc |-> "idle", gotLocal |-> FALSE, gotRemote |-> FALSE,
           checkLocal |-> 0, checkRemote |-> 0, checks |-> 0]

GitQuiet ==
  /\ GitInit
  /\ git.pinned

\* Somebody pushes to the branch of the remote.
RemotePush ==
  /\ git.remoteHead < MaxCommits
  /\ git' = [git EXCEPT !.remoteHead = @ + 1]
  /\ UNCHANGED notGitVars

\* updateAvailable as runSyncJob and checkOneResource compute it.
UpdateAvailable(localCommit, remoteCommit) ==
  IF localCommit # 0 /\ remoteCommit # 0 THEN localCommit # remoteCommit
  ELSE FALSE

\* runSyncJob up to the call of prepareGitRepository: the resource is
\* selected and marked syncing.
GitSyncStart ==
  /\ git.syncPc = "idle"
  /\ git.syncs < MaxSyncs
  /\ git' = [git EXCEPT !.syncPc = "prepare",
                        !.syncCommit = git.row.commit,
                        !.row.contentStatus = "syncing"]
  /\ UNCHANGED notGitVars

\* prepareGitRepository: with a commit, fetch and check out that commit;
\* without, fetch the branch and check out origin/branch.
GitSyncPrepare ==
  /\ git.syncPc = "prepare"
  /\ git' = [git EXCEPT !.syncPc = "read_head",
                        !.fetchedHead = git.remoteHead,
                        !.dirHead = IF git.syncCommit # 0 THEN git.syncCommit
                                    ELSE git.remoteHead]
  /\ UNCHANGED notGitVars

\* readGitHeadCommit of runSyncJob.
GitSyncReadHead ==
  /\ git.syncPc = "read_head"
  /\ git' = [git EXCEPT !.syncPc = "read_remote", !.syncLocal = git.dirHead]
  /\ UNCHANGED notGitVars

\* readRemoteBranchHead of runSyncJob.
GitSyncReadRemote ==
  /\ git.syncPc = "read_remote"
  /\ git' = [git EXCEPT !.syncPc = "update", !.syncRemote = git.remoteHead]
  /\ UNCHANGED notGitVars

\* The row a sync job writes when it is done.
GitSyncedRow(row, localCommit, remoteCommit) ==
  [row EXCEPT !.commit = localCommit,
              !.contentStatus = "ready",
              !.lastLocalCommit = localCommit,
              !.lastRemoteCommit = remoteCommit,
              !.updateAvailable = UpdateAvailable(localCommit, remoteCommit)]

GitSyncUpdate ==
  /\ git.syncPc = "update"
  /\ git' = [git EXCEPT !.syncPc = "idle",
                        !.syncs = @ + 1,
                        !.row = GitSyncedRow(@, git.syncLocal, git.syncRemote)]
  /\ UNCHANGED notGitVars

\* runGitUpdateChecks selects the resource: git and contentStatus ready.
CheckSelect ==
  /\ git.checkPc = "idle"
  /\ git.checks < MaxChecks
  /\ git.row.contentStatus = "ready"
  /\ git' = [git EXCEPT !.checkPc = "exists"]
  /\ UNCHANGED notGitVars

\* checkOneResource: without the directory only lastUpdateCheckAt is
\* written.
CheckExists ==
  /\ git.checkPc = "exists"
  /\ git' = IF git.dirHead = 0
              THEN [git EXCEPT !.checkPc = "idle", !.checks = @ + 1]
              ELSE [git EXCEPT !.checkPc = "reading", !.gotLocal = FALSE,
                               !.gotRemote = FALSE]
  /\ UNCHANGED notGitVars

\* The two reads of Promise.all, in either order.
CheckReadLocal ==
  /\ git.checkPc = "reading"
  /\ ~git.gotLocal
  /\ git' = [git EXCEPT !.gotLocal = TRUE, !.checkLocal = git.dirHead]
  /\ UNCHANGED notGitVars

CheckReadRemote ==
  /\ git.checkPc = "reading"
  /\ ~git.gotRemote
  /\ git' = [git EXCEPT !.gotRemote = TRUE, !.checkRemote = git.remoteHead]
  /\ UNCHANGED notGitVars

\* The row an update check writes.
CheckedRow(row, localCommit, remoteCommit) ==
  [row EXCEPT !.lastLocalCommit = localCommit,
              !.lastRemoteCommit = remoteCommit,
              !.updateAvailable = UpdateAvailable(localCommit, remoteCommit)]

CheckUpdate ==
  /\ git.checkPc = "reading"
  /\ git.gotLocal
  /\ git.gotRemote
  /\ git' = [git EXCEPT !.checkPc = "idle",
                        !.checks = @ + 1,
                        !.row = CheckedRow(@, git.checkLocal, git.checkRemote)]
  /\ UNCHANGED notGitVars

GitNext ==
  \/ RemotePush
  \/ GitSyncStart \/ GitSyncPrepare \/ GitSyncReadHead \/ GitSyncReadRemote
  \/ GitSyncUpdate
  \/ CheckSelect \/ CheckExists \/ CheckReadLocal \/ CheckReadRemote
  \/ CheckUpdate

vars ==
  <<schedVars, streamVars, searchVars, readVars, createVars, fuseVars, researchVars, materializerVars, normalizeVars, gitVars, ensureVars, consumerVars, lookupVars>>

\* The scheduler and the indexer.
Init ==
  StreamQuiet /\ SearchQuiet /\ ReadInit /\ CreateQuiet /\ FuseQuiet /\
    ResearchInit /\ MaterializerInit /\ NormalizeQuiet /\ GitQuiet /\
    EnsureQuiet /\ ConsumerQuiet /\ LookupQuiet /\ SchedInit

Next == SchedNext

Spec == Init /\ [][Next]_vars

\* One streaming request.
StreamSpecInit ==
  SchedQuiet /\ SearchQuiet /\ ReadInit /\ CreateQuiet /\ FuseQuiet /\
    ResearchInit /\ MaterializerInit /\ NormalizeQuiet /\ GitQuiet /\
    EnsureQuiet /\ ConsumerQuiet /\ LookupQuiet /\ StreamInit

StreamSpec == StreamSpecInit /\ [][StreamNext]_vars

\* One agent stream (explore/stream or research/stream) whose fullStream
\* holds tool parts in an order a model run produces: no tool-result before
\* its tool-call.
MaxAgentParts == 4

ToolStreamTypes == {"text-delta", "tool-call", "tool-result", "other"}

CountOf(s, type) == Cardinality({i \in 1..Len(s) : s[i] = type})

ToolStreams ==
  {s \in SeqsUpTo(ToolStreamTypes, MaxAgentParts) :
     \A n \in 1..Len(s) :
       CountOf(SubSeq(s, 1, n), "tool-result") <= CountOf(SubSeq(s, 1, n), "tool-call")}

AgentStreamInit ==
  /\ entry = "agent"
  /\ fullStream \in ToolStreams
  /\ ending = "return"
  /\ producer = "new"
  /\ stepNumber = 0
  /\ lastType = ""
  /\ heartbeat = FALSE
  /\ pings = 0
  /\ source = << >>
  /\ sourceClosed = FALSE
  /\ pump = "new"
  /\ response = << >>
  /\ responseState = "readable"
  /\ updateChecks = 0

AgentStreamNext ==
  \/ AgentStart \/ AgentPart \/ AgentEnd \/ Pump \/ Tick \/ Disconnect

AgentStreamSpecInit ==
  SchedQuiet /\ SearchQuiet /\ ReadInit /\ CreateQuiet /\ FuseQuiet /\
    ResearchInit /\ MaterializerInit /\ NormalizeQuiet /\ GitQuiet /\
    EnsureQuiet /\ ConsumerQuiet /\ LookupQuiet /\ AgentStreamInit

AgentStreamSpec == AgentStreamSpecInit /\ [][AgentStreamNext]_vars

NormalizeSpecInit ==
  SchedQuiet /\ StreamQuiet /\ SearchQuiet /\ ReadInit /\ CreateQuiet /\
    FuseQuiet /\ ResearchInit /\ MaterializerInit /\ GitQuiet /\
    EnsureQuiet /\ ConsumerQuiet /\ LookupQuiet /\ NormalizeInit

NormalizeSpec == NormalizeSpecInit /\ [][NormalizeInput]_vars

\* Syncs and update checks of one git resource.
GitSpecInit ==
  SchedQuiet /\ StreamQuiet /\ SearchQuiet /\ ReadInit /\ CreateQuiet /\
    FuseQuiet /\ ResearchInit /\ MaterializerInit /\ NormalizeQuiet /\
    EnsureQuiet /\ ConsumerQuiet /\ LookupQuiet /\ GitInit

GitSpec == GitSpecInit /\ [][GitNext]_vars

\* One agent stream and the consumer of its response body. The streams are
\* built without a queuing strategy: the high-water mark is one chunk.
HighWaterMark == 1

\* The consumer reads one chunk of the response body.
ConsumerRead ==
  /\ responseState # "cancelled"
  /\ consumed < Len(response)
  /\ consumed' = consumed + 1
  /\ UNCHANGED notConsumerVars

ConsumedStreamNext == AgentStreamNext \/ ConsumerRead

ConsumedStreamSpec == AgentStreamSpecInit /\ [][ConsumedStreamNext]_vars

\* Requests that create and poll research jobs.
LookupSpecInit ==
  SchedQuiet /\ StreamQuiet /\ SearchQuiet /\ ReadInit /\ CreateQuiet /\
    FuseQuiet /\ ResearchInit /\ MaterializerInit /\ NormalizeQuiet /\ GitQuiet /\
    EnsureQuiet /\ ConsumerQuiet /\ LookupInit

LookupSpec == LookupSpecInit /\ [][LookupNext]_vars

\* One call of hybridSearch.
SearchSpecInit ==
  SchedQuiet /\ StreamQuiet /\ ReadInit /\ CreateQuiet /\ FuseQuiet /\
    ResearchInit /\ MaterializerInit /\ NormalizeQuiet /\ GitQuiet /\
    EnsureQuiet /\ ConsumerQuiet /\ LookupQuiet /\ SearchInit

\* Sync jobs and one request that reads the files of the resources; the
\* database rejects no statement.
ReadSpecInit ==
  StreamQuiet /\ SearchQuiet /\ ReadInit /\ CreateQuiet /\ FuseQuiet /\
    ResearchInit /\ MaterializerInit /\ NormalizeQuiet /\ GitQuiet /\
    EnsureQuiet /\ ConsumerQuiet /\ LookupQuiet /\ SchedInit

SyncStep(w) ==
  \/ SelectQueued(w) \/ Release(w) \/ MarkRunning(w) \/ LoadResource(w)
  \/ SyncMark(w) \/ SyncWork(w) \/ SyncReady(w) \/ SyncComplete(w)
  \/ FailJob(w) \/ FailLoad(w) \/ FailResource(w)

ReadSpecNext ==
  \/ \E r \in Resources : InsertBegin(r, "sync")
  \/ \E id \in JobIds : InsertCommit(id)
  \/ \E id \in JobIds : HandlerEnsure(id)
  \/ \E w \in WorkerIds : SyncStep(w)
  \/ ReaderNext

ReadSpec == ReadSpecInit /\ [][ReadSpecNext]_vars

\* Concurrent POST /api/resources requests.
CreateSpecInit ==
  SchedQuiet /\ StreamQuiet /\ SearchQuiet /\ ReadInit /\ FuseQuiet /\
    ResearchInit /\ MaterializerInit /\ NormalizeQuiet /\ GitQuiet /\
    EnsureQuiet /\ ConsumerQuiet /\ LookupQuiet /\ CreateInit

CreateSpec == CreateSpecInit /\ [][CreateNext]_vars

SearchSpec == SearchSpecInit /\ [][SearchNext]_vars

\* One call of mergeHybridResults on arbitrary candidate lists.
FuseSpecInit ==
  SchedQuiet /\ StreamQuiet /\ SearchQuiet /\ ReadInit /\ CreateQuiet /\
    ResearchInit /\ MaterializerInit /\ NormalizeQuiet /\ GitQuiet /\
    EnsureQuiet /\ ConsumerQuiet /\ LookupQuiet /\ FuseInit

FuseSpec == FuseSpecInit /\ [][FuseNext]_vars

\* Syncs and deletions of git resources.
MaterializerSpecInit ==
  SchedQuiet /\ StreamQuiet /\ SearchQuiet /\ ReadInit /\ CreateQuiet /\
    FuseQuiet /\ ResearchInit /\ NormalizeQuiet /\ GitQuiet /\ EnsureQuiet /\
    ConsumerQuiet /\ LookupQuiet /\ MaterializerInit

MaterializerSpec == MaterializerSpecInit /\ [][MaterializerNext]_vars

\* The research jobs.
ResearchSpecInit ==
  SchedQuiet /\ StreamQuiet /\ SearchQuiet /\ ReadInit /\ CreateQuiet /\
    FuseQuiet /\ MaterializerInit /\ NormalizeQuiet /\ GitQuiet /\
    EnsureQuiet /\ ConsumerQuiet /\ LookupQuiet /\ ResearchInit

ResearchSpec == ResearchSpecInit /\ [][ResearchNext]_vars

\* The continuation of every await runs once its promise has settled, and
\* runResearch returns or throws.
ResearchFairSpec ==
  ResearchSpec /\ \A j \in ResearchIds : WF_vars(ResearchStep(j))

\* ------------------------------------------------------------------------
\* Claims about the scheduler and the indexer
\* ------------------------------------------------------------------------
RunningJobsOf(r) ==
  {j \in JobIds : jobs[j].resourceId = r /\ jobs[j].status = "running"}

Started(j) == jobs[j].status \in {"running", "completed", "failed"}

\* The request that created job j has inserted the row and called Ensure.
Enqueued(j) == handlers[j] = "done"

\* C1: for every resource, at every moment, at most one index_jobs row of
\* the resource has status running, under any interleaving of enqueue
\* requests and worker steps.
C1_AtMostOneRunning ==
  \A r \in Resources : Cardinality(RunningJobsOf(r)) <= 1

\* C2: jobs of one resource start in ascending (createdAt, id) order: a job
\* has never started while an enqueued job of the same resource with a
\* smaller (createdAt, id) has not.
C2_StartOrder ==
  \A j1 \in JobIds, j2 \in JobIds :
    ( /\ Enqueued(j1)
      /\ handlers[j2] # "idle"
      /\ jobs[j1].resourceId = jobs[j2].resourceId
      /\ JobLess(j1, j2)
      /\ Started(j2) ) => Started(j1)

\* C3: every enqueued job is started without a later Ensure: as long as no
\* statement has failed, an enqueued job that has not started has a worker
\* of its resource alive to start it.
C3_EnqueuedJobHasWorker ==
  \A j \in JobIds :
    (Enqueued(j) /\ jobs[j].status = "queued" /\ faults = 0)
      => jobs[j].resourceId \in activeResourceQueues

\* Positions of runIndexJob at which the files of the job are known.
ReplacingPcs == {"index_found", "index_chunked", "embed", "delete", "insert",
                 "batch_progress", "index_clear", "index_ready",
                 "index_complete"}

\* C4: while an index job of a resource runs, a read of the resource's
\* chunk rows sees the complete set of the previous successful index or the
\* complete new set, never an empty or a partially inserted one.
C4_AtomicReplacement ==
  \A w \in WorkerIds :
    (workers[w].jtype = "index" /\ workers[w].pc \in ReplacingPcs)
      => Ident(chunks[workers[w].res]) \in
           {Ident(indexed[workers[w].res]), SeqToSet(AllChunks(w))}

StatusEdges == {<<"none", "queued">>, <<"queued", "running">>,
                <<"running", "completed">>, <<"running", "failed">>}

\* C5: a row changes status only along queued -> running -> (completed or
\* failed), and the status, error, progress and completedAt of a completed
\* or failed row never change again.
C5_StatusLifecycle ==
  [][\A j \in JobIds :
       /\ jobs'[j].status # jobs[j].status
            => <<jobs[j].status, jobs'[j].status>> \in StatusEdges
       /\ jobs[j].status \in {"completed", "failed"}
            => /\ jobs'[j].status = jobs[j].status
               /\ jobs'[j].error = jobs[j].error
               /\ jobs'[j].progress = jobs[j].progress
               /\ jobs'[j].completedAt = jobs[j].completedAt]_vars

\* A job runs after an older job of the same resource has reached a
\* terminal status: the worker has selected again over the terminal row.
C5_Witness ==
  \E j1 \in JobIds, j2 \in JobIds :
    /\ jobs[j1].resourceId = jobs[j2].resourceId
    /\ JobLess(j1, j2)
    /\ jobs[j1].status \in {"completed", "failed"}
    /\ jobs[j2].status = "running"

\* C6: when an index job completes, the chunk rows of its resource are
\* exactly the flattened Chunker output for the files the job read, no row
\* of an earlier index remains, chunkCount is their number and vectorStatus
\* is ready; with zero files the set is empty and chunkCount is 0.
C6_IndexReplacesChunks ==
  [][\A w \in WorkerIds :
       ( /\ workers[w].job # 0
         /\ workers[w].jtype = "index"
         /\ jobs[workers[w].job].status = "running"
         /\ jobs'[workers[w].job].status = "completed" )
       => /\ Ident(chunks'[workers[w].res]) = SeqToSet(AllChunks(w))
          /\ resources'[workers[w].res].chunkCount = Len(AllChunks(w))
          /\ resources'[workers[w].res].vectorStatus = "ready"]_vars

\* An index job that found zero files is about to complete on a resource
\* whose previous index left rows: the rows are gone.
C6_Witness ==
  \E w \in WorkerIds :
    /\ workers[w].jtype = "index"
    /\ workers[w].pc = "index_complete"
    /\ workers[w].tree = 0
    /\ indexed[workers[w].res] # {}
    /\ chunks[workers[w].res] = {}
    /\ resources[workers[w].res].chunkCount = 0

\* Positions of a worker whose job has raised a fatal error.
FailingPcs == {"fail_job", "fail_load", "fail_res"}

\* C12: when the run of a job has raised a fatal error, the worker leaves
\* the job with the row failed (error = the message, progress = 100,
\* completedAt set) and the side of the resource that matches the job kind
\* failed with the message: contentStatus for sync, vectorStatus for index.
C12_FatalErrorRecorded ==
  [][\A w \in WorkerIds :
       (workers[w].pc \in FailingPcs /\ workers'[w].pc \notin FailingPcs)
       => LET j == workers[w].job
              r == workers[w].res
          IN /\ jobs'[j].status = "failed"
             /\ jobs'[j].error = workers[w].err
             /\ jobs'[j].progress = 100
             /\ jobs'[j].completedAt # 0
             /\ IF workers[w].jtype = "sync"
                  THEN /\ resources'[r].contentStatus = "failed"
                       /\ resources'[r].contentError = workers[w].err
                  ELSE /\ resources'[r].vectorStatus = "failed"
                       /\ resources'[r].vectorError = workers[w].err]_vars

\* The step completes the index job worker w runs.
IndexJobCompletes(w) ==
  /\ workers[w].job # 0
  /\ workers[w].jtype = "index"
  /\ jobs[workers[w].job].status = "running"
  /\ jobs'[workers[w].job].status = "completed"

\* C13: an index job never ends completed when the root of its resource
\* is missing or when every file the scan discovered failed to be read.
C13_UnrecoverableScanFails ==
  [][\A w \in WorkerIds :
       IndexJobCompletes(w)
       => /\ workers[w].tree # 0
          /\ ~(FilesOfTree(workers[w].tree) # << >> /\ ReadFiles(w) = << >>)]_vars

EmbedWarnings(warnings) ==
  {i \in 1..Len(warnings) : warnings[i].stage = "embed"}

\* C14: when an index job of 250 chunks whose embedMany call failed for
\* batch index 1 only completes, all 250 chunks are rows of the resource,
\* exactly the 100 chunks of batch 1 have no embedding, the row of the job
\* carries exactly one warning of stage embed and vectorStatus is ready.
C14_EmbedFailureTolerated ==
  [][\A w \in WorkerIds :
       ( /\ IndexJobCompletes(w)
         /\ Len(AllChunks(w)) = 250
         /\ workers[w].embedFailed = {1} )
       => LET rows == chunks'[workers[w].res] IN
          /\ Ident(rows) = SeqToSet(AllChunks(w))
          /\ Cardinality(rows) = 250
          /\ {c \in rows : ~c.embedded} = BatchRows(AllChunks(w), 1, FALSE)
          /\ Cardinality({c \in rows : ~c.embedded}) = 100
          /\ Cardinality(EmbedWarnings(jobs'[workers[w].job].warnings)) = 1
          /\ resources'[workers[w].res].vectorStatus = "ready"]_vars

\* An index job has completed with 250 rows of its own, the 100 rows of
\* batch 1 (big.ts chunks 100..199) without embedding, one embed warning.
C14_Witness ==
  \E j \in JobIds :
    LET rows == {c \in chunks[jobs[j].resourceId] : c.job = j} IN
    /\ jobs[j].status = "completed"
    /\ jobs[j].jobType = "index"
    /\ Cardinality(rows) = 250
    /\ \A c \in rows :
         ~c.embedded <=> (c.filepath = "big.ts" /\ c.n \in 100..199)
    /\ Cardinality(EmbedWarnings(jobs[j].warnings)) = 1
    /\ resources[jobs[j].resourceId].vectorStatus = "ready"

\* C15: when a job reaches a terminal status (completed or failed) its row
\* carries every warning recorded during the run, in insertion order.
C15_WarningsExposed ==
  [][\A w \in WorkerIds :
       ( /\ workers[w].job # 0
         /\ jobs[workers[w].job].status = "running"
         /\ jobs'[workers[w].job].status \in {"completed", "failed"} )
       => jobs'[workers[w].job].warnings = workers[w].warnings]_vars

\* prepareGitRepository (clone, fetch, checkout) of a sync job is at work
\* in the directory of git resource r.
SyncWrites(r) ==
  /\ resources[r].type = "git"
  /\ \E w \in WorkerIds : workers[w].res = r /\ workers[w].pc = "sync_work"

\* C16: a reader reads the files of a resource only while its
\* contentStatus is ready, and never while a sync job writes the directory
\* of the resource.
C16_ReadersOnStableSnapshot ==
  reader.pc = "reading"
    => /\ resources[reader.res].contentStatus = "ready"
       /\ ~SyncWrites(reader.res)

\* C17: no two resources rows share (owner, scope, projectKey, name), also
\* when the requests that created them ran concurrently and when the owner
\* is null.
C17_UniqueResourceName ==
  \A i \in 1..Len(createdRows), k \in 1..Len(createdRows) :
    createdRows[i] = createdRows[k] => i = k

\* ------------------------------------------------------------------------
\* Claims about the NDJSON streams
\* ------------------------------------------------------------------------
TerminalEvents(events) ==
  {i \in 1..Len(events) : events[i].type \in TerminalTypes}

\* Every start() of the request has returned or rejected.
StreamOver ==
  /\ producer \in {"returned", "threw"}
  /\ entry = "agent" => pump = "finished"

\* C8: a stream the producer has closed carries exactly one terminal event
\* (done or error), whatever sequence of parts the ChatModel yielded.
C8_OneTerminalEvent ==
  responseState = "closed" => Cardinality(TerminalEvents(response)) = 1

\* C9: the update check of a stream is scheduled at most once, and once the
\* handlers of the stream have run to their end it has been scheduled
\* exactly once, also when the consumer disconnected mid-stream.
C9_UpdateCheckOnce ==
  entry \in {"answer", "answer_empty", "agent"}
    => /\ updateChecks <= 1
       /\ StreamOver => updateChecks = 1

\* C10: after the consumer has disconnected no event is produced: nothing
\* is enqueued on the response stream or on the stream that feeds it, and
\* the heartbeat produces no ping.
C10_SilentAfterDisconnect ==
  [][responseState = "cancelled"
       => /\ response' = response
          /\ Len(source') <= Len(source)
          /\ pings' = pings]_vars

\* C11: after the consumer has disconnected the ChatModel call and the tool
\* executions it drives are cancelled: the producer takes no further part
\* (text, tool call, tool result) from fullStream.
C11_CancelledAfterDisconnect ==
  [][responseState = "cancelled" => fullStream' = fullStream]_vars

\* ------------------------------------------------------------------------
\* Claims about hybrid search
\* ------------------------------------------------------------------------
\* The two-file resource a.txt = "alpha\nbeta\n", b.txt = "beta\ngamma\n",
\* synced and indexed with embeddings, queried with "beta", hybrid,
\* topK = 5, alpha = 0.5.
DemoQuery ==
  /\ corpus.files["a.txt"] = <<"alpha", "beta">>
  /\ corpus.files["b.txt"] = <<"beta", "gamma">>
  /\ \A f \in Paths : corpus.embedded[f]
  /\ corpus.vectorReady
  /\ input = [query |-> "beta", mode |-> "hybrid", alpha |-> <<1, 2>>,
              topK |-> 5]
  /\ textSettled = "fulfilled"
  /\ vectorSettled = "fulfilled"
  /\ searchPc = "done"

RatPositive(a) == a[1] > 0

\* C7: the hybrid query "beta" on the two-file resource returns exactly two
\* results, one per file, at least one of them with matchType hybrid, all
\* with a strictly positive score.
C7_DemoQueryFusesChannels ==
  DemoQuery =>
    /\ Len(searchResults) = 2
    /\ {searchResults[i].filepath : i \in 1..Len(searchResults)} = Paths
    /\ \E i \in 1..Len(searchResults) : searchResults[i].matchType = "hybrid"
    /\ \A i \in 1..Len(searchResults) : RatPositive(searchResults[i].score)

\* What identifies the hit of a result, without score and match type.
Hits(results) ==
  [i \in 1..Len(results) |->
     <<results[i].chunkId, results[i].filepath, results[i].lineStart,
       results[i].lineEnd>>]

SearchOver == searchPc \in {"done", "threw"} /\ input.query # ""

\* C18: when hybridSearch is over, the rejection (failure or timeout) of
\* the subtrack its mode forces has been thrown to the caller (text in
\* mode text, vector in mode vector); in mode hybrid nothing is thrown and
\* when one subtrack was rejected the results are the hits of the other,
\* cut to topK.
C18_FailurePropagation ==
  SearchOver =>
    /\ (input.mode = "text" /\ textSettled = "rejected") => searchPc = "threw"
    /\ (input.mode = "vector" /\ vectorSettled = "rejected") => searchPc = "threw"
    /\ input.mode = "hybrid" =>
         /\ searchPc = "done"
         /\ (textSettled = "rejected" /\ vectorSettled = "fulfilled")
              => Hits(searchResults)
                   = Hits(Take(vectorResults, normalizeTopK(input.topK)))
         /\ (vectorSettled = "rejected" /\ textSettled = "fulfilled")
              => Hits(searchResults)
                   = Hits(Take(textResults, normalizeTopK(input.topK)))

\* A hybrid search whose text subtrack was rejected has returned the hits
\* of the vector subtrack.
C18_Witness ==
  /\ SearchOver
  /\ input.mode = "hybrid"
  /\ textSettled = "rejected"
  /\ vectorSettled = "fulfilled"
  /\ searchPc = "done"
  /\ Len(searchResults) = 2
  /\ \A i \in 1..Len(searchResults) : searchResults[i].matchType = "vector"

\* C19: once the caller has cancelled a search none of its subtracks keeps
\* running: no rg subprocess, no embedding request, no chunk query.
C19_CancelStopsSubtracks ==
  cancelled => (textWork # "running" /\ vectorWork # "running")

\* C20: hybridSearch never waits longer than 10 seconds for a subtrack,
\* however long the subtrack runs.
C20_TenSecondDeadline ==
  searchPc = "searching" => elapsed <= 10000

\* hybridSearch is over and more than 10 seconds after its call one of its
\* subtracks is still running.
C20_Witness ==
  /\ SearchOver
  /\ elapsed > 10000
  /\ textWork = "running" \/ vectorWork = "running"

\* ------------------------------------------------------------------------
\* Claims about mergeHybridResults
\* ------------------------------------------------------------------------
RatEqual(a, b) == a[1] * b[2] = b[1] * a[2]
RatAdd(a, b) == <<a[1] * b[2] + b[1] * a[2], a[2] * b[2]>>
RatMul(a, b) == <<a[1] * b[1], a[2] * b[2]>>

\* Every result of a has a result of b with the same key and score.
ScoredWithin(a, b) ==
  \A i \in 1..Len(a) : \E j \in 1..Len(b) :
    /\ resultKey(a[i]) = resultKey(b[j])
    /\ RatEqual(a[i].score, b[j].score)

\* C21: at alpha = 0.5, exchanging the text and the vector candidate list
\* gives the same set of result keys with the same final scores.
C21_FusionSymmetric ==
  (fuse.pc = "swapped" /\ RatEqual(fuse.alpha, <<1, 2>>)) =>
    /\ ScoredWithin(fuse.merged, fuse.swapped)
    /\ ScoredWithin(fuse.swapped, fuse.merged)


\* The keys of a list are pairwise different.
NoDuplicate(list) ==
  \A i, j \in 1..Len(list) : i # j => resultKey(list[i]) # resultKey(list[j])

\* The rank of a key in a list without duplicates, 0 when it is absent.
RankIn(list, key) ==
  IF \E i \in 1..Len(list) : resultKey(list[i]) = key
    THEN CHOOSE i \in 1..Len(list) : resultKey(list[i]) = key
    ELSE 0

\* 1/(K + rank) with K = 60, 0 for an absent channel
ReciprocalRank(rank) == IF rank = 0 THEN <<0, 1>> ELSE <<1, 60 + rank>>

ExpectedScore(alpha, textRank, vectorRank) ==
  RatAdd(RatMul(alpha, ReciprocalRank(vectorRank)),
         RatMul(<<alpha[2] - alpha[1], alpha[2]>>, ReciprocalRank(textRank)))

KeysOf(keys) == [i \in 1..Len(keys) |-> resultKey(Candidate(keys[i]))]

\* Text candidates T1, T2, T3, vector candidates V1 = T2, V2, V3,
\* alpha = 0.5 and topK = 3.
SpecExample ==
  /\ [i \in 1..Len(fuse.textResults) |-> resultKey(fuse.textResults[i])]
       = KeysOf(<<"T1", "T2", "T3">>)
  /\ [i \in 1..Len(fuse.vectorResults) |-> resultKey(fuse.vectorResults[i])]
       = KeysOf(<<"T2", "V2", "V3">>)
  /\ fuse.alpha = <<1, 2>>
  /\ fuse.topK = 3

\* C22: the final score of a result is
\* alpha * 1/(60 + vectorRank) + (1 - alpha) * 1/(60 + textRank), an absent
\* channel counting 0; the results are in descending order of score; for
\* the example the top 3 is T2 with 0.5/61 + 0.5/62, then T1 with 0.5/61,
\* then V2 with 0.5/62.
C22_FusionScores ==
  fuse.pc # "new" =>
    /\ (NoDuplicate(fuse.textResults) /\ NoDuplicate(fuse.vectorResults)) =>
         \A i \in 1..Len(fuse.merged) :
           RatEqual(fuse.merged[i].score,
                    ExpectedScore(fuse.alpha,
                      RankIn(fuse.textResults, resultKey(fuse.merged[i])),
                      RankIn(fuse.vectorResults, resultKey(fuse.merged[i]))))
    /\ \A i, j \in 1..Len(fuse.merged) :
         i < j => ~RatGreater(fuse.merged[j].score, fuse.merged[i].score)
    /\ SpecExample =>
         /\ [i \in 1..Len(fuse.merged) |-> resultKey(fuse.merged[i])]
              = KeysOf(<<"T2", "T1", "V2">>)
         /\ RatEqual(fuse.merged[1].score, <<123, 7564>>)
         /\ RatEqual(fuse.merged[2].score, <<1, 122>>)
         /\ RatEqual(fuse.merged[3].score, <<1, 124>>)

\* mergeHybridResults has returned for the example.
C22_Witness ==
  /\ fuse.pc = "merged"
  /\ SpecExample
  /\ Len(fuse.merged) = 3
  /\ fuse.merged[1].matchType = "hybrid"


\* ------------------------------------------------------------------------
\* Claims about the jobs and the resources of the indexer
\* ------------------------------------------------------------------------
\* 40 + floor(k / n * 55) capped at 95: the progress after k of n batches.
ProgressAfterBatches(k, n) ==
  LET p == 40 + (k * 55) \div n IN IF p > 95 THEN 95 ELSE p

\* One update of the progress of a running index job with totalFiles files
\* and n embedding batches.
ProgressStepOfIndex(old, new, totalFiles, n) ==
  \/ old = 0 /\ new = (IF totalFiles = 0 THEN 95 ELSE 10)
  \/ old = 10 /\ new = 40
  \/ old = 95 /\ new = 95 /\ totalFiles = 0
  \/ old = 40 /\ n >= 1 /\ new = ProgressAfterBatches(1, n)
  \/ \E k \in 2..n : /\ old = ProgressAfterBatches(k - 1, n)
                     /\ new = ProgressAfterBatches(k, n)

\* C23: the progress of a running job never decreases; it is below 100
\* as long as the job runs and 100 when the job ends; an index job moves
\* it from 0 to 10 after file discovery (95 without files), to 40 after
\* chunking, to 40 + floor((batchIndex + 1) / totalBatches * 55), at most
\* 95, after each embedding batch.
C23_ProgressMonotone ==
  [][\A id \in JobIds :
       jobs[id].status = "running" =>
         /\ jobs'[id].progress >= jobs[id].progress
         /\ jobs'[id].status = "running" => jobs'[id].progress < 100
         /\ jobs'[id].status # "running" =>
              /\ jobs'[id].status \in {"completed", "failed"}
              /\ jobs'[id].progress = 100
         /\ (jobs'[id].status = "running"
               /\ jobs'[id].progress # jobs[id].progress) =>
              \E w \in WorkerIds :
                /\ workers[w].job = id
                /\ workers[w].jtype = "index"
                /\ ProgressStepOfIndex(jobs[id].progress, jobs'[id].progress,
                     TotalFiles(w), TotalBatches(Len(AllChunks(w))))]_vars

\* A running index job of three batches has stored its second batch.
C23_Witness ==
  \E id \in JobIds :
    /\ jobs[id].status = "running"
    /\ jobs[id].jobType = "index"
    /\ jobs[id].progress = 76


\* C24: whatever the jobs of the other resources do, the queue of a
\* resource can be started for a job that was inserted, the started queue
\* can select the oldest queued job of its resource, and the selected job
\* can be set running.
C24_ResourcesIndependent ==
  /\ \A id \in JobIds : handlers[id] = "inserted" => ENABLED HandlerEnsure(id)
  /\ \A w \in WorkerIds :
       /\ (workers[w].pc = "select" /\ QueuedJobsOf(workers[w].res) # {})
            => ENABLED (SelectQueued(w) /\ workers'[w].job # 0)
       /\ (workers[w].pc = "selected" /\ workers[w].job # 0)
            => ENABLED MarkRunning(w)

\* Jobs of two resources are running at the same time, and the queue of
\* one resource sets its job running while the job of the other is in its
\* git or file-system work.
C24_Witness ==
  \E v, w \in WorkerIds :
    /\ workers[v].res # workers[w].res
    /\ workers[v].job # 0 /\ jobs[workers[v].job].status = "running"
    /\ workers[w].job # 0 /\ jobs[workers[w].job].status = "running"
    /\ workers[v].pc \in {"sync_work", "index_collect"}
    /\ workers[w].pc = "load"


\* C25: the legacy status of a resource is always the mapping of its
\* contentStatus and vectorStatus: failed if one of them is failed, else
\* indexing if content is syncing or vector is indexing, else ready if both
\* are ready, else pending.
C25_LegacyStatusDerived ==
  \A r \in Resources :
    resources[r].status =
      (IF "failed" \in {resources[r].contentStatus, resources[r].vectorStatus}
         THEN "failed"
       ELSE IF resources[r].contentStatus = "syncing"
                 \/ resources[r].vectorStatus = "indexing"
         THEN "indexing"
       ELSE IF resources[r].contentStatus = "ready"
                 /\ resources[r].vectorStatus = "ready"
         THEN "ready"
       ELSE "pending")


\* ------------------------------------------------------------------------
\* Claims about the research jobs
\* ------------------------------------------------------------------------
ResearchEnded(j) == research[j].row.status \in {"completed", "failed"}

C28_SubprocessBounded ==
  \A w \in WorkerIds : workers[w].pc = "git_hung" => ENABLED WorkerStep(w)


\* ------------------------------------------------------------------------
\* Claims about the directory of a resource
\* ------------------------------------------------------------------------
\* C29: the directory of a resource under the repos root does not outlive
\* the resource: once the resource is deleted the directory does not exist,
\* whether a sync job was queued or running at the deletion or not.
C29_DirectoryLifetime ==
  \A r \in Resources : ~materialized[r].row => ~materialized[r].dir


\* C30: no step of a worker that runs a sync job changes lastIndexedAt of
\* its resource, and when the sync job of a git resource whose
\* contentStatus was ready at the start of the job completes, the
\* contentStatus of the resource is ready.
C30_SyncPreservesReady ==
  [][\A w \in WorkerIds :
       (workers[w].job # 0 /\ workers[w].jtype = "sync"
          /\ workers'[w] # workers[w]) =>
         LET r == workers[w].res
             j == workers[w].job
         IN /\ resources'[r].lastIndexedAt = resources[r].lastIndexedAt
            /\ (/\ resources[r].type = "git"
                /\ workers[w].rcs = "ready"
                /\ jobs[j].status = "running"
                /\ jobs'[j].status = "completed")
                 => resources'[r].contentStatus = "ready"]_vars

\* The second sync job of a git resource, started when the content was
\* ready, has completed.
C30_Witness ==
  \E j, k \in JobIds :
    /\ j # k
    /\ jobs[j].jobType = "sync" /\ jobs[j].status = "completed"
    /\ jobs[k].jobType = "sync" /\ jobs[k].status = "completed"
    /\ jobs[j].resourceId = jobs[k].resourceId
    /\ resources[jobs[j].resourceId].type = "git"
    /\ resources[jobs[j].resourceId].contentStatus = "ready"
    /\ resources[jobs[j].resourceId].lastIndexedAt = 0


\* ------------------------------------------------------------------------
\* C31. In an agent stream the step number of tool events starts at 1 with
\* the first tool-call, goes up by one exactly when a tool-call follows an
\* event of another kind (heartbeats aside), and every tool-result carries
\* the step number of the tool-call it answers. Tools answer in the order
\* they were called: the k-th tool-result answers the k-th tool-call.
\* ------------------------------------------------------------------------
EventsOfType(events, type) == SelectSeq(events, LAMBDA e : e.type = type)

WithoutPings(events) == SelectSeq(events, LAMBDA e : e.type # "ping")

\* Step number of the last tool-call among events (0 when there is none).
LastCallStep(events) ==
  LET calls == EventsOfType(events, "tool-call")
  IN IF calls = << >> THEN 0 ELSE calls[Len(calls)].stepNumber

C31_StepNumbers ==
  LET events == WithoutPings(response)
      calls == EventsOfType(events, "tool-call")
      results == EventsOfType(events, "tool-result")
  IN /\ calls # << >> => calls[1].stepNumber = 1
     /\ \A i \in 2..Len(events) :
          events[i].type = "tool-call" =>
            events[i].stepNumber =
              LastCallStep(SubSeq(events, 1, i - 1)) +
                (IF events[i - 1].type # "tool-call" THEN 1 ELSE 0)
     /\ \A k \in 1..Len(results) :
          k <= Len(calls) => results[k].stepNumber = calls[k].stepNumber


\* ------------------------------------------------------------------------
\* C32. Hybrid search clamps topK to [1,50]: a requested topK below 1, 0
\* included, becomes 1 and one above 50 becomes 50; alpha is clamped to
\* [0,1] and a NaN alpha becomes 0.5.
\* ------------------------------------------------------------------------
ClampedTopK(k) == IF k < 1 THEN 1 ELSE IF k > 50 THEN 50 ELSE k

ClampedAlpha(al) ==
  IF al[2] = 0 THEN <<1, 2>>
  ELSE IF al[1] < 0 THEN <<0, 1>>
  ELSE IF al[1] > al[2] THEN <<1, 1>>
  ELSE al

C32_InputsClamped ==
  normalized.done =>
    /\ normalized.outTopK = ClampedTopK(normalized.topK)
    /\ normalized.outAlpha = ClampedAlpha(normalized.alpha)


\* ------------------------------------------------------------------------
\* C33. Every sync of a git resource created without a pinned commit checks
\* out the head the remote branch has at that sync, the second and later
\* syncs included; unless the remote moves while the sync runs, the sync
\* leaves lastLocalCommit = lastRemoteCommit and updateAvailable = FALSE.
\* ------------------------------------------------------------------------
C33_SyncChecksOutBranchHead ==
  [][~git.pinned =>
       /\ (git.syncPc = "prepare" /\ git'.syncPc = "read_head")
            => git'.dirHead = git.remoteHead
       /\ (git.syncPc = "update" /\ git'.syncPc = "idle"
             /\ git.syncRemote = git.fetchedHead)
            => /\ git'.row.lastLocalCommit = git'.row.lastRemoteCommit
               /\ ~git'.row.updateAvailable]_vars


\* ------------------------------------------------------------------------
\* C34. Every index_jobs row with status running is being executed by a
\* live worker: while no worker is active for a resource the resource has
\* no running row, also after a statement of markJobFailed has rejected.
\* ------------------------------------------------------------------------
C34_RunningRowHasWorker ==
  \A r \in Resources : r \notin activeResourceQueues => RunningJobsOf(r) = {}


\* ------------------------------------------------------------------------
\* C35. When an index job fails the chunk rows of its resource are the set
\* the last completed index job left: a failed index leaves neither an
\* empty nor a partially replaced chunk set.
\* ------------------------------------------------------------------------
C35_FailedIndexKeepsChunks ==
  [][\A w \in WorkerIds :
       ( /\ workers[w].jtype = "index"
         /\ workers[w].pc = "fail_job"
         /\ jobs'[workers[w].job].status = "failed" )
       => Ident(chunks'[workers[w].res]) = Ident(indexed[workers[w].res])]_vars


\* ------------------------------------------------------------------------
\* C36. An update check that runs concurrently with a sync job of the same
\* resource leaves no stale data: once both have finished, lastLocalCommit
\* is the HEAD of the directory and lastRemoteCommit and updateAvailable
\* come from the latest remote head either of them has read.
\* ------------------------------------------------------------------------
\* A sync and an update check have both run and neither is running.
BothFinished ==
  /\ git.syncPc = "idle"
  /\ git.checkPc = "idle"
  /\ git.syncs > 0
  /\ git.checks > 0

C36_NoStaleCheck ==
  BothFinished =>
    /\ git.row.lastLocalCommit = git.dirHead
    /\ git.row.lastRemoteCommit = Max(git.syncRemote, git.checkRemote)
    /\ git.row.updateAvailable =
         UpdateAvailable(git.dirHead, Max(git.syncRemote, git.checkRemote))


\* ------------------------------------------------------------------------
\* C37. The overrides of a resource are present exactly while a worker of
\* the resource is active, and every job a worker starts gets the overrides
\* of the latest ensureResourceJobQueue call for the resource before the
\* job reads them.
\* ------------------------------------------------------------------------
\* Worker w reads the overrides of its resource in this step.
ReadsOverrides(w) ==
  /\ workers[w].pc = "load"
  /\ workers'[w].pc \in {"sync_mark", "index_mark"}

C37_OverridesOfLatestEnsure ==
  [][/\ \A r \in Resources :
          resourceRuntimeOverrides'[r] # 0 <=> r \in activeResourceQueues'
     /\ \A w \in WorkerIds :
          ReadsOverrides(w) => workers'[w].runtime = latestEnsure[workers[w].res]]_vars

\* A job runs with the overrides of a request made after its own: the
\* request of a later job called Ensure before the worker read them.
C37_Witness ==
  \E w \in WorkerIds :
    /\ workers[w].pc \in {"sync_mark", "index_mark"}
    /\ workers[w].runtime # workers[w].job
    /\ workers[w].runtime = latestEnsure[workers[w].res]


\* ------------------------------------------------------------------------
\* C38. No event follows the terminal event of a stream: after the first
\* done or error the consumer gets no ping and no second done or error.
\* ------------------------------------------------------------------------
C38_NothingAfterTerminal ==
  \A i \in TerminalEvents(response) : i = Len(response)


\* ------------------------------------------------------------------------
\* C39. The NDJSON producer honours the backpressure of the consumer: the
\* events queued on the response stream and not yet read by a slow or
\* stalled consumer never exceed the high-water mark of the stream.
\* ------------------------------------------------------------------------
Buffered == Len(response) - consumed

C39_BackpressureHonoured ==
  responseState = "readable" => Buffered <= HighWaterMark


\* ------------------------------------------------------------------------
\* C40. The row of a research job is returned only to the owner that
\* created it: a request of another owner for the same job id does not get
\* the row.
\* ------------------------------------------------------------------------
C40_RowOnlyToOwner ==
  lookup.reply.status = 200 => lookup.reply.userId = lookup.reply.requester

====
